---------------------------- MODULE Spec2Model ----------------------------
(***************************************************************************)
(* Model of the sine PWM firmware EE105WORKINGWellHigh.ino: the sample     *)
(* ticker interrupt (onSampleTick), the reconfiguration path               *)
(* (applyAmplitude, updateForFrequencyAndTable, buildSineTable,            *)
(* attachTickerUs), setup, the line handler (processSerialLine) and the    *)
(* byte loop (loop).                                                       *)
(*                                                                         *)
(* The main context is modelled statement by statement with a program      *)
(* counter and a stack of return labels; the interrupt runs to completion  *)
(* between any two main-context steps, whenever the mbed Ticker is         *)
(* attached.                                                               *)
(*                                                                         *)
(* Number representations (TLC integers are 32 bit):                       *)
(*   frequencies, amplitudes, amplitude_scale, interval_f                  *)
(*                  IEEE binary32 values [cls, neg, mant, exp], every      *)
(*                  operation on them rounded as the hardware rounds it    *)
(*   intervals      microseconds, unsigned int                             *)
(*   phase, frac    IEEE binary32 values, held exactly as multiples of     *)
(*                  2^-30 (every phase the code can reach from 0 with the  *)
(*                  steps 1/20 .. 1/200 is such a multiple); the float     *)
(*                  addition and multiplication round to 24 significant    *)
(*                  bits, ties to even, as the hardware does               *)
(*   table entries, sample, duty   fixed point, units of 2^-15             *)
(***************************************************************************)
EXTENDS Integers, Sequences, FiniteSets, TLC

\* ------------------------------------------------------------ bounds
MaxLines == 2
MaxTicks == 2

\* ------------------------------------------------- program constants
MAX_TABLE_SIZE == 200
TABLE_SIZE == 100
BUF_SIZE == 200
MIN_INTERVAL_US == 6
DEFAULT_TABLE_SIZE == 100

\* ------------------------------------------------ fixed-point scales
RECURSIVE Pow2(_)
Pow2(k) == IF k = 0 THEN 1 ELSE 2 * Pow2(k - 1)

ONE30 == Pow2(30)
ONE15 == Pow2(15)
SIN_SCALE == Pow2(16)
\* the sine is tabulated at 600 points per turn: every table size in use divides 600
TURN == 3 * MAX_TABLE_SIZE

\* the element of a one-element set: a value computed once and then named is
\* written Only({F(x) : x \in {value}})
Only(S) == CHOOSE x \in S : TRUE

Min(a, b) == IF a < b THEN a ELSE b
Max(a, b) == IF a > b THEN a ELSE b

\* Number of bits of x >= 0 (0 for 0)
RECURSIVE BitLen(_)
BitLen(x) == IF x = 0 THEN 0 ELSE 1 + BitLen(x \div 2)

\* ------------------------------------------------------------ sinf
\* sin(2*pi*k/600) * 2^16 for k = 0..150, rounded to nearest (first quarter turn)
SinQuarter ==
   << 0, 686, 1372, 2059, 2744, 3430, 4115, 4800, 5484, 6167,
      6850, 7533, 8214, 8894, 9574, 10252, 10929, 11605, 12280, 12954,
      13626, 14296, 14965, 15633, 16298, 16962, 17624, 18284, 18942, 19598,
      20252, 20903, 21553, 22200, 22844, 23486, 24125, 24762, 25396, 26027,
      26656, 27281, 27904, 28523, 29140, 29753, 30363, 30969, 31572, 32172,
      32768, 33361, 33949, 34535, 35116, 35693, 36267, 36837, 37402, 37964,
      38521, 39074, 39623, 40167, 40708, 41243, 41774, 42301, 42823, 43340,
      43852, 44360, 44862, 45360, 45853, 46341, 46824, 47301, 47774, 48241,
      48703, 49159, 49610, 50056, 50496, 50931, 51360, 51784, 52201, 52613,
      53020, 53420, 53815, 54204, 54586, 54963, 55334, 55699, 56057, 56410,
      56756, 57096, 57430, 57757, 58078, 58393, 58701, 59003, 59299, 59588,
      59870, 60146, 60415, 60678, 60934, 61183, 61426, 61662, 61891, 62113,
      62328, 62537, 62739, 62934, 63122, 63303, 63477, 63644, 63804, 63958,
      64104, 64243, 64375, 64500, 64618, 64729, 64833, 64930, 65019, 65102,
      65177, 65245, 65306, 65360, 65407, 65446, 65479, 65504, 65522, 65532,
      65536 >>

\* sinf(2*pi*k/600) * 2^16 for k in 0..599, by the symmetries of the sine
SinTurn(k) ==
   IF k <= 150 THEN SinQuarter[k + 1]
   ELSE IF k <= 300 THEN SinQuarter[300 - k + 1]
   ELSE IF k <= 450 THEN 0 - SinQuarter[k - 300 + 1]
   ELSE 0 - SinQuarter[600 - k + 1]

\* (sinf(2.0f * PI_F * i / tableSize) + 1.0f) * 0.5f in units of 2^-15, for the
\* table sizes the firmware uses (all divide 600)
SineEntry(i, tableSize) ==
   (SinTurn((i * TURN) \div tableSize) + SIN_SCALE + 2) \div 4


\* ------------------------------------------------- binary32 arithmetic
\* x >= 0 in units of 2^-30, rounded to 24 significant bits, ties to even
RoundF32(x) ==
   LET n == BitLen(x) IN
   IF n <= 24 THEN x
   ELSE LET q  == Pow2(n - 24)
            hi == x \div q
            lo == x % q
            up == lo * 2 > q \/ (lo * 2 = q /\ hi % 2 = 1)
        IN  (IF up THEN hi + 1 ELSE hi) * q

\* float step = 1.0f / (float)tableSize, in units of 2^-30 (exact for the table
\* sizes the firmware uses; below 2^-30 of the binary32 quotient otherwise)
StepFor(tableSize) ==
   LET q  == ONE30 \div tableSize
       r  == ONE30 % tableSize
       n  == BitLen(q)
   IN  IF n >= 24
       THEN LET g  == Pow2(n - 24)
                hi == q \div g
                lo == q % g
                \* the discarded part is lo + r/tableSize, compared with g/2
                up == IF 2 * lo > g THEN TRUE
                      ELSE IF 2 * lo = g THEN (r > 0 \/ hi % 2 = 1)
                      ELSE IF g = 1 THEN (2 * r > tableSize \/ (2 * r = tableSize /\ hi % 2 = 1))
                      ELSE FALSE
            IN  (IF up THEN hi + 1 ELSE hi) * g
       ELSE LET e  == Pow2(24 - n)
                qq == q * e + (r * e) \div tableSize
                rr == (r * e) % tableSize
                up == 2 * rr > tableSize \/ (2 * rr = tableSize /\ qq % 2 = 1)
            IN  (IF up THEN qq + 1 ELSE qq) \div e

\* float pos = p * (float)tableSize for p in units of 2^-30 and tableSize <= 200:
\* the exact product in two limbs of 15 bits, rounded to 24 significant bits.
\* The result is mant * 2^shift in units of 2^-30.
MulPhase(p, tableSize) ==
   LET ph   == p \div ONE15
       pl   == p % ONE15
       low  == pl * tableSize
       L    == low % ONE15
       H    == ph * tableSize + low \div ONE15
       nb   == IF H = 0 THEN BitLen(L) ELSE BitLen(H) + 15
   IN  IF nb <= 24 THEN [mant |-> H * ONE15 + L, shift |-> 0]
       ELSE LET d    == nb - 24
                q    == Pow2(d)
                hi   == H * Pow2(15 - d) + L \div q
                lo   == L % q
                up   == lo * 2 > q \/ (lo * 2 = q /\ hi % 2 = 1)
            IN  [mant |-> IF up THEN hi + 1 ELSE hi, shift |-> d]

\* (int)floorf(pos)
FloorPos(pos) == pos.mant \div Pow2(30 - pos.shift)
\* pos - floorf(pos), in units of 2^-30
FracPos(pos) == (pos.mant % Pow2(30 - pos.shift)) * Pow2(pos.shift)

\* diff * frac for frac in units of 2^-30 (0 <= frac < 2^30), |diff| <= 2^15
MulFrac(diff, frac) ==
   LET a  == IF diff < 0 THEN 0 - diff ELSE diff
       fh == frac \div ONE15
       fl == frac % ONE15
       m  == (a * fh + (a * fl) \div ONE15) \div ONE15
   IN  IF diff < 0 THEN 0 - m ELSE m

\* ------------------------------------------------- decimal digits
RECURSIVE Pow10(_)
Pow10(k) == IF k = 0 THEN 1 ELSE 10 * Pow10(k - 1)

Digits == <<"0", "1", "2", "3", "4", "5", "6", "7", "8", "9">>

\* ------------------------------------------------- large naturals
\* A natural number too wide for 32 bits is a sequence of limbs of 15 bits, the
\* least significant first, with no zero limb at the top (0 is << >>).
LIMB == Pow2(15)

RECURSIVE BigTop(_, _)
BigTop(x, n) == IF n = 0 THEN 0 ELSE IF x[n] # 0 THEN n ELSE BigTop(x, n - 1)

BigNorm(x) == SubSeq(x, 1, BigTop(x, Len(x)))

\* 0 <= n < 2^31
BigOfInt(n) == BigNorm(<<n % LIMB, (n \div LIMB) % LIMB, n \div (LIMB * LIMB)>>)

\* x < 2^31
BigToInt(x) ==
   (IF Len(x) >= 1 THEN x[1] ELSE 0)
   + (IF Len(x) >= 2 THEN x[2] * LIMB ELSE 0)
   + (IF Len(x) >= 3 THEN x[3] * LIMB * LIMB ELSE 0)

BigBitLen(x) == IF x = << >> THEN 0 ELSE 15 * (Len(x) - 1) + BitLen(x[Len(x)])

\* The operations that carry from limb to limb work on a range of limbs i..j,
\* one half after the other, which keeps the nesting of the evaluation shallow.
\* x * c + a for 0 <= c <= 2^15 and 0 <= a < 2^15: limbs i..j of x, st the
\* carry so far and the limbs written so far
RECURSIVE BigMulAddRange(_, _, _, _, _)
BigMulAddRange(x, c, st, i, j) ==
   IF i > j THEN st
   ELSE IF i = j
   THEN Only({[carry |-> t \div LIMB, acc |-> Append(st.acc, t % LIMB)] :
                t \in {x[i] * c + st.carry}})
   ELSE Only({BigMulAddRange(x, c, m, (i + j) \div 2 + 1, j) :
                m \in {BigMulAddRange(x, c, st, i, (i + j) \div 2)}})

BigMulAdd(x, c, a) ==
   Only({BigNorm(st.acc \o BigOfInt(st.carry)) :
           st \in {BigMulAddRange(x, c, [carry |-> a, acc |-> << >>], 1, Len(x))}})

\* quotient and remainder of x by d, 0 < d <= 2^15: limbs j down to i of x, st
\* the remainder so far and the quotient limbs written so far
RECURSIVE BigDivRange(_, _, _, _, _)
BigDivRange(x, d, st, i, j) ==
   IF i > j THEN st
   ELSE IF i = j
   THEN Only({[r |-> t % d, acc |-> <<t \div d>> \o st.acc] :
                t \in {st.r * LIMB + x[i]}})
   ELSE Only({BigDivRange(x, d, m, i, (i + j) \div 2) :
                m \in {BigDivRange(x, d, st, (i + j) \div 2 + 1, j)}})

BigDivRem(x, d) ==
   Only({[q |-> BigNorm(st.acc), r |-> st.r] :
           st \in {BigDivRange(x, d, [r |-> 0, acc |-> << >>], 1, Len(x))}})

\* x + y: limbs i..j
RECURSIVE BigAddRange(_, _, _, _, _)
BigAddRange(x, y, st, i, j) ==
   IF i > j THEN st
   ELSE IF i = j
   THEN Only({[carry |-> t \div LIMB, acc |-> Append(st.acc, t % LIMB)] :
                t \in {(IF i <= Len(x) THEN x[i] ELSE 0)
                       + (IF i <= Len(y) THEN y[i] ELSE 0) + st.carry}})
   ELSE Only({BigAddRange(x, y, m, (i + j) \div 2 + 1, j) :
                m \in {BigAddRange(x, y, st, i, (i + j) \div 2)}})

BigAdd(x, y) ==
   Only({BigNorm(st.acc \o BigOfInt(st.carry)) :
           st \in {BigAddRange(x, y, [carry |-> 0, acc |-> << >>], 1,
                               Max(Len(x), Len(y)))}})

\* x * 2^n
BigShl(x, n) ==
   LET ls == n \div 15
       bs == Pow2(n % 15)
       at(i) == IF i >= 1 /\ i <= Len(x) THEN x[i] * bs ELSE 0
   IN  BigNorm([j \in 1..(Len(x) + ls + 1) |->
                  (at(j - ls) % LIMB) + (at(j - ls - 1) \div LIMB)])

\* x \div 2^n
BigShr(x, n) ==
   LET ls == n \div 15
       bs == Pow2(n % 15)
       at(i) == IF i <= Len(x) THEN x[i] ELSE 0
   IN  IF ls >= Len(x) THEN << >>
       ELSE BigNorm([j \in 1..(Len(x) - ls) |->
                       (at(j + ls) \div bs) + (at(j + ls + 1) % bs) * (LIMB \div bs)])

\* x % 2^n
BigLow(x, n) ==
   LET ls == n \div 15
       bs == Pow2(n % 15)
   IN  IF ls >= Len(x) THEN x
       ELSE BigNorm([j \in 1..(ls + 1) |-> IF j <= ls THEN x[j] ELSE x[j] % bs])

\* bit n of x (bit 0 is the least significant)
BigBit(x, n) ==
   IF n \div 15 >= Len(x) THEN 0 ELSE (x[n \div 15 + 1] \div Pow2(n % 15)) % 2

\* x * n for 0 <= n < 2^31, one limb of n at a time
BigMulInt(x, n) ==
   BigAdd(BigAdd(BigMulAdd(x, n % LIMB, 0),
                 BigShl(BigMulAdd(x, (n \div LIMB) % LIMB, 0), 15)),
          BigShl(BigMulAdd(x, n \div (LIMB * LIMB), 0), 30))

\* x * 10^k
RECURSIVE BigMulPow10(_, _)
BigMulPow10(x, k) ==
   IF k = 0 THEN x
   ELSE IF k <= 4 THEN BigMulAdd(x, Pow10(k), 0)
   ELSE Only({BigMulPow10(m, k - 4 * Max(1, k \div 8)) : m \in {BigMulPow10(x, 4 * Max(1, k \div 8))}})

\* st.q \div 10^k, with st.sticky telling whether anything was left over
RECURSIVE BigDivPow10(_, _)
BigDivPow10(st, k) ==
   IF k = 0 THEN st
   ELSE IF k <= 4
   THEN Only({[q |-> d.q, sticky |-> st.sticky \/ d.r # 0] :
                d \in {BigDivRem(st.q, Pow10(k))}})
   ELSE Only({BigDivPow10(m, k - 4 * Max(1, k \div 8)) : m \in {BigDivPow10(st, 4 * Max(1, k \div 8))}})

\* the natural number written by the digit values ds[i..j] in the given base
\* (10 or 16) after the digits of acc
RECURSIVE BigOfDigitsRange(_, _, _, _, _)
BigOfDigitsRange(ds, base, acc, i, j) ==
   IF i > j THEN acc
   ELSE IF i = j THEN BigMulAdd(acc, base, ds[i])
   ELSE IF i + 1 = j THEN BigMulAdd(acc, base * base, ds[i] * base + ds[j])
   ELSE IF i + 2 = j
   THEN BigMulAdd(acc, base * base * base, (ds[i] * base + ds[i + 1]) * base + ds[j])
   ELSE Only({BigOfDigitsRange(ds, base, m, (i + j) \div 2 + 1, j) :
                m \in {BigOfDigitsRange(ds, base, acc, i, (i + j) \div 2)}})

BigOfDigits(ds, base) == BigOfDigitsRange(ds, base, << >>, 1, Len(ds))

\* ------------------------------------------------- binary floating point
\* x * 2^e (a little more when sticky) rounded to p significant bits, ties to
\* even, with no exponent below emin: [m, e] with value m * 2^e, m < 2^p, and
\* m >= 2^(p-1) unless e = emin. The callers keep at least two more bits than
\* the result in x wherever sticky can be set.
RoundBig(x, sticky, e, p, emin) ==
   LET n  == BigBitLen(x)
       sh == Max(n - p, emin - e)
   IN  IF x = << >> THEN [m |-> << >>, e |-> 0]
       ELSE IF sh <= 0 THEN [m |-> BigShl(x, 0 - sh), e |-> e + sh]
       ELSE LET q    == BigShr(x, sh)
                half == BigBit(x, sh - 1) = 1
                rest == sticky \/ BigLow(x, sh - 1) # << >>
                up   == half /\ (rest \/ BigBit(q, 0) = 1)
            IN  Only({IF r = << >> THEN [m |-> << >>, e |-> 0]
                      ELSE IF BigBitLen(r) > p THEN [m |-> BigShr(r, 1), e |-> e + sh + 1]
                      ELSE [m |-> r, e |-> e + sh] :
                         r \in {IF up THEN BigMulAdd(q, 1, 1) ELSE q}})

\* A binary32 value. cls "fin": (-1)^neg * mant * 2^exp with mant < 2^24, either
\* normal (mant >= 2^23, -149 <= exp <= 104), subnormal (exp = -149) or zero
\* (mant = 0, exp = 0, of either sign). cls "inf": an infinity. cls "nan": not
\* a number.
F32(neg, mant, exp) ==
   IF mant = 0 THEN [cls |-> "fin", neg |-> neg, mant |-> 0, exp |-> 0]
   ELSE [cls |-> "fin", neg |-> neg, mant |-> mant, exp |-> exp]
F32Inf(neg) == [cls |-> "inf", neg |-> neg, mant |-> 0, exp |-> 0]
F32NaN == [cls |-> "nan", neg |-> FALSE, mant |-> 0, exp |-> 0]
F32Zero == F32(FALSE, 0, 0)
F32IsZero(a) == a.cls = "fin" /\ a.mant = 0

F32_MANT_BITS == 24
F32_EMIN == 0 - 149
F32_EMAX == 104

\* the binary32 nearest to (-1)^neg * x * 2^e (ties to even)
F32Round(neg, x, sticky, e) ==
   Only({IF r.m # << >> /\ r.e > F32_EMAX THEN F32Inf(neg)
         ELSE F32(neg, BigToInt(r.m), r.e) :
            r \in {RoundBig(x, sticky, e, F32_MANT_BITS, F32_EMIN)}})

\* (float)n for an int n >= 0
F32OfInt(n) == F32Round(FALSE, BigOfInt(n), FALSE, 0)

\* strtof of the C library (glibc, strtod_l.c) hands round_and_return the 24
\* leading bits of the value, the bit after them and whether anything follows.
\* For a subnormal result the function shifts the 24 bits right and rounds on
\* the bits shifted out and on what follows, but leaves the 25th bit itself
\* out. The result differs from the nearest binary32 only when the 25th bit is
\* the last set bit of the value and the bits shifted out are exactly a half:
\* 0x1.000001p-150 gives 0 and 0x1.400001p-148 gives 2 * 2^-149. A decimal
\* numeral takes that path only when its value lies in [2^-127, 2^-126).
\*
\* the decimal numeral with digits D (a large natural) and exponent E:
\* D * 10^E rounded to binary32, by strtof when lib is TRUE and to the nearest
\* binary32 (as the compiler converts a literal) otherwise. nd is the number
\* of digits.
F32DecimalRound(neg, D, nd, E, lib) ==
   IF D = << >> THEN F32(neg, 0, 0)
   ELSE IF E > 40 THEN F32Inf(neg)
   ELSE IF nd + E <= 0 - 46 THEN F32(neg, 0, 0)
   ELSE IF E >= 0 THEN F32Round(neg, BigMulPow10(D, E), FALSE, 0)
   ELSE Only({IF lib /\ BigBitLen(d.q) = F32_MANT_BITS + 1
              THEN F32Round(neg, BigShr(d.q, 1), d.sticky, 0 - 150)
              ELSE F32Round(neg, d.q, d.sticky, 0 - 151) :
                d \in {BigDivPow10([q |-> BigShl(D, 151), sticky |-> FALSE], 0 - E)}})

\* the decimal numeral D * 10^E as strtof (sscanf %f) gives it
F32OfDecimal(neg, D, nd, E) == F32DecimalRound(neg, D, nd, E, TRUE)

\* the hexadecimal numeral with digits H and binary exponent E: H * 2^E
\* rounded as strtof gives it. lead is the exponent of the leading bit.
F32OfHex(neg, H, E) ==
   LET n    == BigBitLen(H)
       lead == E + n - 1
   IN  IF n > F32_MANT_BITS /\ lead >= 0 - 150 /\ lead <= 0 - 127
       THEN F32Round(neg, BigShr(H, n - F32_MANT_BITS),
                     BigLow(H, n - F32_MANT_BITS - 1) # << >>, E + n - F32_MANT_BITS)
       ELSE F32Round(neg, H, FALSE, E)

\* a * b for binary32 a and b: the exact product of the two mantissas, rounded
F32Mul(a, b) ==
   IF a.cls = "nan" \/ b.cls = "nan" THEN F32NaN
   ELSE IF a.cls = "inf" \/ b.cls = "inf"
   THEN (IF (a.cls = "fin" /\ a.mant = 0) \/ (b.cls = "fin" /\ b.mant = 0)
         THEN F32NaN ELSE F32Inf(a.neg # b.neg))
   ELSE IF a.mant = 0 \/ b.mant = 0 THEN F32(a.neg # b.neg, 0, 0)
   ELSE F32Round(a.neg # b.neg, BigMulInt(BigOfInt(a.mant), b.mant), FALSE, a.exp + b.exp)

\* q and r with q = (a * 2^n) \div d and r the remainder, for a < d < 2^24
RECURSIVE DivBits(_, _, _, _)
DivBits(r, d, n, q) ==
   IF n = 0 THEN [q |-> q, r |-> r]
   ELSE IF 2 * r >= d THEN DivBits(2 * r - d, d, n - 1, 2 * q + 1)
   ELSE DivBits(2 * r, d, n - 1, 2 * q)

\* mant * 2^exp with the mantissa brought to 24 bits (mant > 0)
F32Normal(a) ==
   LET s == F32_MANT_BITS - BitLen(a.mant)
   IN  [mant |-> a.mant * Pow2(s), exp |-> a.exp - s]

\* a / b for binary32 a and b
F32Div(a, b) ==
   IF a.cls = "nan" \/ b.cls = "nan" THEN F32NaN
   ELSE IF a.cls = "inf" THEN (IF b.cls = "inf" THEN F32NaN ELSE F32Inf(a.neg # b.neg))
   ELSE IF b.cls = "inf" THEN F32(a.neg # b.neg, 0, 0)
   ELSE IF b.mant = 0 THEN (IF a.mant = 0 THEN F32NaN ELSE F32Inf(a.neg # b.neg))
   ELSE IF a.mant = 0 THEN F32(a.neg # b.neg, 0, 0)
   ELSE LET na == F32Normal(a)
            nb == F32Normal(b)
        IN  Only({F32Round(a.neg # b.neg,
                           BigAdd(BigShl(BigOfInt(na.mant \div nb.mant), 27), BigOfInt(d.q)),
                           d.r # 0, na.exp - nb.exp - 27) :
                     d \in {DivBits(na.mant % nb.mant, nb.mant, 27, 0)}})

\* a + b for binary32 a, b >= 0
F32Add(a, b) ==
   IF a.cls = "nan" \/ b.cls = "nan" THEN F32NaN
   ELSE IF a.cls = "inf" THEN a
   ELSE IF b.cls = "inf" THEN b
   ELSE IF a.mant = 0 THEN b
   ELSE IF b.mant = 0 THEN a
   ELSE LET g == Min(a.exp, b.exp)
        IN  F32Round(FALSE,
                     BigAdd(BigShl(BigOfInt(a.mant), a.exp - g),
                            BigShl(BigOfInt(b.mant), b.exp - g)),
                     FALSE, g)

\* a < b and a <= b as the hardware compares: false when either is not a number
F32MagLess(a, b) ==
   IF a.cls = "inf" THEN FALSE
   ELSE IF b.cls = "inf" THEN TRUE
   ELSE IF b.mant = 0 THEN FALSE
   ELSE IF a.mant = 0 THEN TRUE
   ELSE a.exp < b.exp \/ (a.exp = b.exp /\ a.mant < b.mant)

F32Less(a, b) ==
   IF a.cls = "nan" \/ b.cls = "nan" THEN FALSE
   ELSE IF F32IsZero(a) /\ F32IsZero(b) THEN FALSE
   ELSE IF a.neg /\ ~b.neg THEN TRUE
   ELSE IF ~a.neg /\ b.neg THEN FALSE
   ELSE IF a.neg THEN F32MagLess(b, a)
   ELSE F32MagLess(a, b)

F32Leq(a, b) ==
   IF a.cls = "nan" \/ b.cls = "nan" THEN FALSE
   ELSE a = b \/ (F32IsZero(a) /\ F32IsZero(b)) \/ F32Less(a, b)

\* (unsigned int)v for a binary32 v >= 0, the fraction discarded. Below 2^32 the
\* conversion is defined. From 2^32 on (and for an infinity) it is undefined and
\* the builds differ: the x86-64 cvttss2si of a host build converts to 64 bits
\* and keeps the low word (0 from 2^63 on), the ARM vcvt.u32.f32 of the board
\* saturates at UINT_MAX.
F32ToUnsigned(v) ==
   IF v.cls # "fin" \/ v.exp >= 32
   THEN [defined |-> FALSE, us |-> 0, wrap |-> 0]
   ELSE IF v.exp >= 9
   THEN LET w == v.mant % Pow2(32 - v.exp)
        IN  [defined |-> FALSE, us |-> 0,
             wrap |-> IF w = 0 THEN 0
                      ELSE IF w >= Pow2(31 - v.exp)
                      THEN (w - Pow2(32 - v.exp)) * Pow2(v.exp - 1) * 2
                      ELSE w * Pow2(v.exp)]
   ELSE LET u == IF v.exp = 8 THEN (v.mant - Pow2(24)) * Pow2(8)
                 ELSE IF v.exp >= 0 THEN v.mant * Pow2(v.exp)
                 ELSE IF v.exp <= 0 - 24 THEN 0
                 ELSE v.mant \div Pow2(0 - v.exp)
        IN  [defined |-> TRUE, us |-> u, wrap |-> u]

\* ------------------------------------------------- Serial.print(x, 3)
\* Print::printFloat of the Arduino core works in double: x * 2^e rounded to 53
\* significant bits
D64Round(x, e) == RoundBig(x, FALSE, e, 53, 0 - 1074)
\* the whole part and the fraction of a double d >= 0
D64Floor(d) == IF d.e >= 0 THEN BigShl(d.m, d.e) ELSE BigShr(d.m, 0 - d.e)
D64Frac(d) == IF d.e >= 0 THEN [m |-> << >>, e |-> 0]
              ELSE Only({[m |-> f, e |-> IF f = << >> THEN 0 ELSE d.e] :
                           f \in {BigLow(d.m, 0 - d.e)}})
\* a + b for doubles a, b >= 0
D64Add(a, b) ==
   IF a.m = << >> THEN b
   ELSE IF b.m = << >> THEN a
   ELSE D64Round(BigAdd(BigShl(a.m, a.e - Min(a.e, b.e)), BigShl(b.m, b.e - Min(a.e, b.e))),
                 Min(a.e, b.e))
\* d * 10.0
D64Times10(d) == D64Round(BigMulAdd(d.m, 10, 0), d.e)

\* double rounding = 0.5; rounding /= 10.0, three times: 0x1.0624dd2f1a9fcp-11
SERIAL_PRINT_ROUNDING == [m |-> <<10748, 9699, 2359, 131>>, e |-> 0 - 63]

\* the decimal digits of a large natural (print(unsigned long))
RECURSIVE BigDecimal(_)
BigDecimal(x) ==
   IF x = << >> THEN << >>
   ELSE Only({BigDecimal(d.q) \o <<Digits[d.r + 1]>> : d \in {BigDivRem(x, 10)}})

SerialPrintUnsigned(x) == IF x = << >> THEN <<"0">> ELSE BigDecimal(x)

\* the digits after the point: remainder *= 10.0; toPrint = (unsigned int)remainder;
\* print(toPrint); remainder -= toPrint, n times
RECURSIVE SerialPrintFraction(_, _)
SerialPrintFraction(remainder, n) ==
   IF n = 0 THEN << >>
   ELSE Only({SerialPrintUnsigned(D64Floor(r)) \o SerialPrintFraction(D64Frac(r), n - 1) :
                r \in {D64Times10(remainder)}})

\* Serial.print(x, 3) for a binary32 x >= 0: the characters printed
SerialPrint3(x) ==
   IF x.cls = "nan" THEN <<"n", "a", "n">>
   ELSE IF x.cls = "inf" THEN <<"i", "n", "f">>
   ELSE IF F32Less(F32(FALSE, 16777215, 8), x) THEN <<"o", "v", "f">>
   ELSE Only({SerialPrintUnsigned(D64Floor(number)) \o <<".">> \o SerialPrintFraction(D64Frac(number), 3) :
                number \in {D64Add([m |-> BigOfInt(x.mant), e |-> x.exp], SERIAL_PRINT_ROUNDING)}})

\* a float literal of the source: the decimal digits ds with decimal exponent e
F32Literal(ds, e) == F32DecimalRound(FALSE, BigOfDigits(ds, 10), Len(ds), e, FALSE)

\* line 50: const float VCC = 3.3f
VCC == F32Literal(<<3, 3>>, 0 - 1)
\* line 42: volatile float amplitude_v = 3.3f
DEFAULT_AMPLITUDE_V == F32Literal(<<3, 3>>, 0 - 1)
\* line 43: volatile float amplitude_scale = 1.0f
DEFAULT_AMPLITUDE_SCALE == F32OfInt(1)
\* line 46: float frequency = 0.5f
DEFAULT_FREQUENCY == F32Literal(<<5>>, 0 - 1)
\* line 131: 6.0f
MIN_INTERVAL_F == F32OfInt(MIN_INTERVAL_US)

\* ------------------------------------------------------ unsigned int
\* An unsigned int above 2^31 - 1 is held as its 32-bit pattern read as a signed
\* integer: UINT_MAX, 4294967295, is -1.
UINT_MAX == 0 - 1
UnsignedLess(a, b) == IF (a < 0) = (b < 0) THEN a < b ELSE b < 0

\* ------------------------------------------------------------ policy
\* Mutant: setup keeps the bands of the previous firmware version
SetupTableSizePrevious(f) ==
   IF F32Leq(f, F32OfInt(250)) THEN 200
   ELSE IF F32Leq(f, F32OfInt(500)) THEN 150
   ELSE IF F32Leq(f, F32OfInt(750)) THEN 100
   ELSE IF F32Leq(f, F32OfInt(1000)) THEN 75
   ELSE IF F32Leq(f, F32OfInt(1250)) THEN 50
   ELSE 30

\* setup, lines 177-184: the table size for the default frequency
SetupTableSize(f) ==
   LET defaultTableSize ==
          IF F32Leq(f, F32OfInt(150)) THEN 200
          ELSE IF F32Leq(f, F32OfInt(300)) THEN 100
          ELSE IF F32Leq(f, F32OfInt(600)) THEN 50
          ELSE IF F32Leq(f, F32OfInt(1200)) THEN 30
          ELSE 20
   IN  Min(defaultTableSize, MAX_TABLE_SIZE)

\* processSerialLine, lines 218-226: the table size for a commanded frequency
CommandTableSize(f) ==
   LET newTableSize ==
          IF F32Leq(f, F32OfInt(150)) THEN 200
          ELSE IF F32Leq(f, F32OfInt(300)) THEN 100
          ELSE IF F32Leq(f, F32OfInt(600)) THEN 50
          ELSE IF F32Leq(f, F32OfInt(1200)) THEN 30
          ELSE 20
   IN  Min(newTableSize, MAX_TABLE_SIZE)

\* ---------------------------------------------------------- interval
\* updateForFrequencyAndTable, lines 128-131: interval_f for a frequency and a
\* table size, every operation rounded to binary32 as the code does it
\*   denom      = frequency * (float)currentTableSize, 1.0f if not positive
\*   interval_f = 1e6f / denom, 6.0f if below 6.0f
\* Mutant: interval_f is not held at 6.0f (line 131 left out)
IntervalFloatUnfloored(f, tableSize) ==
   LET product    == F32Mul(f, F32OfInt(tableSize))
       denom      == IF F32Leq(product, F32Zero) THEN F32OfInt(1) ELSE product
   IN  F32Div(F32OfInt(1000000), denom)

IntervalFloat(f, tableSize) ==
   LET product    == F32Mul(f, F32OfInt(tableSize))
       denom      == IF F32Leq(product, F32Zero) THEN F32OfInt(1) ELSE product
       interval_f == F32Div(F32OfInt(1000000), denom)
   IN  IF F32Less(interval_f, MIN_INTERVAL_F) THEN MIN_INTERVAL_F ELSE interval_f

\* line 132: (unsigned int)(interval_f + 0.5f). There is no upper limit on
\* interval_f; defined tells whether the conversion is defined (the sum is
\* below 2^32), us is its result then, and wrap the low word of the sum when
\* it is not.
IntervalFor(f, tableSize) ==
   F32ToUnsigned(F32Add(IntervalFloat(f, tableSize), F32Literal(<<5>>, 0 - 1)))

\* The builds an undefined conversion to unsigned int tells apart: "wrap", the
\* host build (the low word of the 64-bit conversion), and "saturate", the
\* board (UINT_MAX).
CastOutcomes == {"wrap", "saturate"}
CastBy(build, v) == IF build = "saturate" THEN UINT_MAX ELSE v.wrap

\* applyAmplitude, lines 139-140: amp clamped to [0, VCC]
ClampAmplitude(amp) ==
   IF F32Less(amp, F32Zero) THEN F32Zero ELSE IF F32Less(VCC, amp) THEN VCC ELSE amp

\* applyAmplitude, lines 143-144: amplitude_scale clamped to [0, 1]
ClampScale(s) ==
   IF F32Less(F32OfInt(1), s) THEN F32OfInt(1)
   ELSE IF F32Less(s, F32Zero) THEN F32Zero
   ELSE s

\* ------------------------------------------------------------ sscanf
\* A line is a sequence of one-character strings. VT and NUL stand for the
\* vertical tab and the NUL byte, which a string of this notation cannot hold.
VT == "\\v"
NUL == "\\0"

IsDigit(c) == \E d \in 1..10 : Digits[d] = c
DigitVal(c) == (CHOOSE d \in 1..10 : Digits[d] = c) - 1
\* isspace in the C locale
IsSpace(c) == c \in {" ", "\t", "\n", VT, "\f", "\r"}

HexLower == <<"0", "1", "2", "3", "4", "5", "6", "7", "8", "9",
              "a", "b", "c", "d", "e", "f">>
HexUpper == <<"0", "1", "2", "3", "4", "5", "6", "7", "8", "9",
              "A", "B", "C", "D", "E", "F">>
IsHexDigit(c) == \E d \in 1..16 : HexLower[d] = c \/ HexUpper[d] = c
HexVal(c) == (CHOOSE d \in 1..16 : HexLower[d] = c \/ HexUpper[d] = c) - 1

\* the letters of the words %f knows, and their capitals
Letters  == <<"a", "e", "f", "i", "n", "p", "t", "x", "y">>
Capitals == <<"A", "E", "F", "I", "N", "P", "T", "X", "Y">>
\* c is the letter l, in either case
IsLetter(c, l) == \E d \in 1..Len(Letters) : Letters[d] = l /\ (c = l \/ c = Capitals[d])

\* the character at index i of s ("" past the end)
At(s, i) == IF i >= 1 /\ i <= Len(s) THEN s[i] ELSE ""
\* the word w (small letters) is at index i of s, in any case
IsWord(s, i, w) == \A k \in 1..Len(w) : IsLetter(At(s, i + k - 1), w[k])

\* the least element of a set of indices, none if the set is empty
FirstOf(S, none) == IF S = {} THEN none ELSE CHOOSE x \in S : \A y \in S : x <= y

\* first index >= i of line s that holds no white space (Len(s) + 1 if none)
SkipSpace(s, i) ==
   IF i > Len(s) THEN i
   ELSE FirstOf({j \in i..Len(s) : ~IsSpace(s[j])}, Len(s) + 1)

\* first index >= i of line s that holds no digit
SkipDigits(s, i) ==
   IF i > Len(s) THEN i
   ELSE FirstOf({j \in i..Len(s) : ~IsDigit(s[j])}, Len(s) + 1)

\* first index >= i of line s that holds no hexadecimal digit
SkipHexDigits(s, i) ==
   IF i > Len(s) THEN i
   ELSE FirstOf({j \in i..Len(s) : ~IsHexDigit(s[j])}, Len(s) + 1)

\* the values of the decimal digits in s[i..j-1], whatever else is there left out
DigitsOf(s, i, j) ==
   Only({[k \in 1..Len(ds) |-> DigitVal(ds[k])] :
           ds \in {SelectSeq(SubSeq(s, i, j - 1), IsDigit)}})
\* the same for hexadecimal digits
HexDigitsOf(s, i, j) ==
   Only({[k \in 1..Len(ds) |-> HexVal(ds[k])] :
           ds \in {SelectSeq(SubSeq(s, i, j - 1), IsHexDigit)}})

\* value of the digits in s[i..j-1] as an integer, for at most 9 digits
RECURSIVE IntOf(_, _, _)
IntOf(s, i, j) ==
   IF i >= j THEN 0
   ELSE IntOf(s, i, j - 1) * 10 + DigitVal(s[j - 1])

\* the exponent written by the digits s[xs..xe-1]: its value, held at
\* EXPONENT_CAP, beyond which every binary32 result is the same
EXPONENT_CAP == 99999
ExponentOf(s, xs, xe) ==
   LET first == FirstOf({j \in xs..(xe - 1) : s[j] # "0"}, xe)
   IN  IF xe - first > 5 THEN EXPONENT_CAP ELSE IntOf(s, first, xe)

\* The result of a %f conversion. ok: a number was converted; val: its value;
\* next: the index after the characters read.
ScanFail(a) == [ok |-> FALSE, val |-> F32Zero, next |-> a]
Scanned(v, n) == [ok |-> TRUE, val |-> v, next |-> n]

\* "nan" at index b, in any case
ScanNan(s, b) ==
   IF IsWord(s, b, <<"n", "a", "n">>) THEN Scanned(F32NaN, b + 3) ELSE ScanFail(b)

\* "inf" at index b, in any case; an i after it has to start "inity"
ScanInf(s, b, neg) ==
   IF ~IsWord(s, b, <<"i", "n", "f">>) THEN ScanFail(b)
   ELSE IF ~IsLetter(At(s, b + 3), "i") THEN Scanned(F32Inf(neg), b + 3)
   ELSE IF IsWord(s, b + 3, <<"i", "n", "i", "t", "y">>) THEN Scanned(F32Inf(neg), b + 8)
   ELSE ScanFail(b)

\* The exponent part at index e of s, mark the exponent letter ("e" or "p"):
\* the mark is read when a digit came before it, then a sign directly after the
\* mark, then decimal digits. [has: digits follow the mark; val: the signed
\* exponent; next: the index after what was read]
ScanExponent(s, e, mark, got_digit) ==
   LET hasE  == got_digit /\ IsLetter(At(s, e), mark)
       xsign == hasE /\ At(s, e + 1) \in {"-", "+"}
       xs    == IF xsign THEN e + 2 ELSE e + 1
   IN  IF ~hasE THEN [has |-> FALSE, val |-> 0, next |-> e]
       ELSE Only({[has  |-> xe > xs,
                   val  |-> IF xe = xs THEN 0
                            ELSE IF At(s, e + 1) = "-" THEN 0 - ExponentOf(s, xs, xe)
                            ELSE ExponentOf(s, xs, xe),
                   next |-> xe] : xe \in {SkipDigits(s, xs)}})

\* a decimal numeral at index b: digits[.digits][e[+-]digits] with at least
\* one digit before the exponent
\*   c: after the integer digits     e: after the fraction
ScanDecimalValue(s, b, neg, c, e, x) ==
   LET nfrac == IF e > c THEN e - (c + 1) ELSE 0
   IN  Scanned(Only({F32OfDecimal(neg, BigOfDigits(ds, 10), Len(ds), x.val - nfrac) :
                       ds \in {DigitsOf(s, b, e)}}),
               x.next)

ScanDecimalFraction(s, b, neg, c, e) ==
   LET got_digit == c > b \/ e > c + 1
   IN  IF ~got_digit THEN ScanFail(b)
       ELSE Only({ScanDecimalValue(s, b, neg, c, e, x) :
                    x \in {ScanExponent(s, e, "e", got_digit)}})

ScanDecimal(s, b, neg) ==
   Only({Only({ScanDecimalFraction(s, b, neg, c, e) :
                 e \in {IF At(s, c) = "." THEN SkipDigits(s, c + 1) ELSE c}}) :
           c \in {SkipDigits(s, b)}})

\* a hexadecimal numeral, "0x" at index b: hexdigits[.hexdigits][p[+-]digits];
\* "0x" with nothing after it that belongs to the numeral converts nothing,
\* "0x." is 0
\*   h: after the "0x"     c: after the integer digits     e: after the fraction
ScanHexValue(s, neg, c, e, h, x) ==
   LET nfrac == IF e > c THEN e - (c + 1) ELSE 0
   IN  Scanned(F32OfHex(neg, BigOfDigits(HexDigitsOf(s, h, e), 16), x.val - 4 * nfrac),
               x.next)

ScanHexFraction(s, b, neg, c, e) ==
   LET h         == b + 2
       got_digit == c > h \/ e > c + 1
   IN  IF e = h THEN ScanFail(b)
       ELSE Only({ScanHexValue(s, neg, c, e, h, x) :
                    x \in {ScanExponent(s, e, "p", got_digit)}})

ScanHex(s, b, neg) ==
   Only({Only({ScanHexFraction(s, b, neg, c, e) :
                 e \in {IF At(s, c) = "." THEN SkipHexDigits(s, c + 1) ELSE c}}) :
           c \in {SkipHexDigits(s, b + 2)}})

\* after the white space, at index a: the sign, then the form of the numeral
ScanSign(s, a) ==
   LET b   == IF At(s, a) \in {"-", "+"} THEN a + 1 ELSE a
       neg == At(s, a) = "-"
   IN  IF IsLetter(At(s, b), "n") THEN ScanNan(s, b)
       ELSE IF IsLetter(At(s, b), "i") THEN ScanInf(s, b, neg)
       ELSE IF At(s, b) = "0" /\ IsLetter(At(s, b + 1), "x") THEN ScanHex(s, b, neg)
       ELSE ScanDecimal(s, b, neg)

\* The %f conversion at index i of s, as the C library does it: white space is
\* skipped, then the longest run of characters that can start a numeral is
\* read (decimal, hexadecimal, "inf", "infinity" or "nan", with an optional
\* sign) and converted to the nearest binary32. An exponent mark that no digit
\* follows is read with its sign and counts for nothing.
ScanFloat(s, i) == Only({ScanSign(s, a) : a \in {SkipSpace(s, i)}})

\* strstr(s, w) from index i: the first index at which w occurs in s, 0 if none
StrStr(s, w, i) ==
   FirstOf({j \in i..(Len(s) - Len(w) + 1) : \A k \in 1..Len(w) : s[j + k - 1] = w[k]},
           0)

\* the suppressed scanset %*[^...]: the index after the longest run from i of
\* characters not in stop (the conversion fails if the run is empty)
SkipUntil(s, i, stop) ==
   IF i > Len(s) THEN i
   ELSE FirstOf({j \in i..Len(s) : s[j] \in stop \/ IsDigit(s[j])}, Len(s) + 1)

\* sscanf(p, "%*[^0-9-]%f", &tmp) == 1 (stop = {"-"}) and
\* sscanf(p, "%*[^0-9-.]%f", &tmp) == 1 (stop = {"-", "."}) at index i of s
ScanAfterKeyword(s, i, stop) ==
   LET j == SkipUntil(s, i, stop)
   IN  IF j = i \/ j > Len(s) THEN ScanFail(j)
       ELSE ScanFloat(s, j)

KwFrequency == <<"f", "r", "e", "q", "u", "e", "n", "c", "y">>
KwAmplitude == <<"a", "m", "p", "l", "i", "t", "u", "d", "e">>

\* lines 195-196: float freq = -1.0f; float amp = -1.0f
NotRecovered == F32(TRUE, Pow2(23), 0 - 23)

\* processSerialLine, lines 201-213: with fewer than two numbers converted,
\* the keyword searches, each overriding its value only when it converts one
ParseFallback(line, n, fr0, am0) ==
   LET pf   == StrStr(line, KwFrequency, 1)
       pa   == StrStr(line, KwAmplitude, 1)
       ft   == IF pf > 0 THEN ScanAfterKeyword(line, pf, {"-"}) ELSE ScanFail(1)
       at   == IF pa > 0 THEN ScanAfterKeyword(line, pa, {"-", "."}) ELSE ScanFail(1)
   IN  IF n >= 2 THEN [n |-> n, freq |-> fr0, amp |-> am0]
       ELSE [n |-> n,
             freq |-> IF ft.ok THEN ft.val ELSE fr0,
             amp  |-> IF at.ok THEN at.val ELSE am0]

\* line 199: sscanf(line, "%f %f", &freq, &amp), f1 and a1 the two conversions
\* (a1 is not attempted when f1 fails)
ParsePair(line, f1, a1) ==
   ParseFallback(line,
                 IF ~f1.ok THEN 0 ELSE IF ~a1.ok THEN 1 ELSE 2,
                 IF f1.ok THEN f1.val ELSE NotRecovered,
                 IF f1.ok /\ a1.ok THEN a1.val ELSE NotRecovered)

ParseSecond(line, f1) ==
   Only({ParsePair(line, f1, a1) :
           a1 \in {IF f1.ok THEN ScanFloat(line, f1.next) ELSE ScanFail(1)}})

\* processSerialLine, lines 195-213: the (freq, amp) pair recovered from a line,
\* each -1.0f when not recovered
ParseLine(line) == Only({ParseSecond(line, f1) : f1 \in {ScanFloat(line, 1)}})

\* ----------------------------------------------------- host input
\* The lines the host may send (each is followed by a newline).
Line500_33   == <<"5", "0", "0", " ", "3", ".", "3">>
Line500_1    == <<"5", "0", "0", " ", "1">>
Line2000_5   == <<"2", "0", "0", "0", " ", "5">>
Line0_1      == <<"0", " ", "1">>
LineHello    == <<"h", "e", "l", "l", "o", " ", "w", "o", "r", "l", "d">>
LineFast     == <<"9", "0", "0", "0", "0", "0", " ", "2", "\r">>
LineTiny     == <<"1", "e", "-", "1", "6", " ", "1">>
LineEmpty    == << >>
Lines == {Line500_33, Line500_1, Line2000_5, Line0_1, LineHello, LineFast, LineTiny,
          LineEmpty}

\* ------------------------------------------------------------ state
VARIABLES
   pc,                \* main context: the statement about to run
   stack,             \* main context: return labels of the calls in progress
   sineTable,         \* float sineTable[MAX_TABLE_SIZE], units of 2^-15
   phase,             \* volatile float phase, units of 2^-30
   currentTableSize,  \* volatile int currentTableSize
   tickerAttached,    \* volatile bool tickerAttached
   amplitude_v,       \* volatile float amplitude_v, a binary32
   amplitude_scale,   \* volatile float amplitude_scale, a binary32
   frequency,         \* float frequency, a binary32
   currentIntervalUs, \* unsigned int currentIntervalUs
   sampleTicker,      \* mbed::Ticker: [attached, us]
   pwmDuty,           \* the duty last written to pwmOut, units of 2^-15 (DUTY_NAN: not a number)
   buf,               \* loop: static char buf[200], the bytes before bufpos
   bufpos,            \* loop: static int bufpos
   line,              \* processSerialLine: the argument
   freq,              \* processSerialLine: local freq, a binary32
   amp,               \* processSerialLine: local amp, a binary32
   newTableSize,      \* processSerialLine: local newTableSize
   argAmp,            \* applyAmplitude: parameter amp
   argFreq,           \* updateForFrequencyAndTable: parameter freq
   argSize,           \* updateForFrequencyAndTable: parameter newTableSize
   argUs,             \* attachTickerUs: parameter intervalUs
   bSize,             \* buildSineTable: parameter tableSize
   bI,                \* buildSineTable: loop index i
   serialOpen,        \* Serial: the host has opened the port (operator bool)
   rx,                \* Serial: bytes received and not yet read
   out,               \* Serial: lines printed so far
   linesSent,         \* host: lines sent so far
   nread,             \* Serial.read() calls that returned a byte
   tickCount,         \* ticks delivered so far
   castOverflow,      \* the builds this run can be of: both until an undefined
                      \* conversion to unsigned int is made, one from then on
   snap               \* history: the oscillator as the latest accepted command found it
                      \* (its phase and tick count kept until the next tick, -1
                      \* once a tick has moved the phase on), and the phase and
                      \* tick count at which the ticker was last started

shared == <<sineTable, phase, currentTableSize, tickerAttached, amplitude_v,
            amplitude_scale, frequency, currentIntervalUs, sampleTicker, pwmDuty>>
locals == <<line, freq, amp, newTableSize, argAmp, argFreq, argSize, argUs, bSize, bI>>
serial == <<buf, bufpos, serialOpen, rx, out, linesSent, nread>>
vars == <<pc, stack, shared, locals, serial, tickCount, castOverflow, snap>>

\* entries [0, currentTableSize) hold the sine built for currentTableSize
TableBuilt ==
   \A i \in 0..(currentTableSize - 1) : sineTable[i] = SineEntry(i, currentTableSize)

\* the oscillator configuration, the phase and the tick count, as a record; of
\* the table it keeps whether it is the one built for the table size
Snapshot ==
   [phase |-> phase, ticks |-> tickCount, frequency |-> frequency,
    tableSize |-> currentTableSize, interval_us |-> currentIntervalUs,
    amplitude |-> amplitude_v, scale |-> amplitude_scale,
    attached |-> sampleTicker.attached, built |-> TableBuilt]

\* the phase and the tick count at which the ticker was last started
Resumed(p, t) == [resumePhase |-> p, resumeTicks |-> t]

\* a line printed on the serial port: its first word and, for the detail line
\* of an accepted command, the four values it prints (the two floats as the
\* characters printed)
Msg(tag) ==
   [tag |-> tag, freq |-> << >>, amp |-> << >>, tableSize |-> 0, interval_us |-> 0]

Init ==
   /\ pc = "s_wait"
   /\ stack = << >>
   /\ sineTable = [i \in 0..(MAX_TABLE_SIZE - 1) |-> 0]
   /\ phase = 0
   /\ currentTableSize = DEFAULT_TABLE_SIZE
   /\ tickerAttached = FALSE
   /\ amplitude_v = DEFAULT_AMPLITUDE_V
   /\ amplitude_scale = DEFAULT_AMPLITUDE_SCALE
   /\ frequency = DEFAULT_FREQUENCY
   /\ currentIntervalUs = 0
   /\ sampleTicker = [attached |-> FALSE, us |-> 0]
   /\ pwmDuty = 0
   /\ buf = << >>
   /\ bufpos = 0
   /\ line = << >>
   /\ freq = F32Zero
   /\ amp = F32Zero
   /\ newTableSize = 0
   /\ argAmp = F32Zero
   /\ argFreq = F32Zero
   /\ argSize = 0
   /\ argUs = 0
   /\ bSize = 0
   /\ bI = 0
   /\ serialOpen = FALSE
   /\ rx = << >>
   /\ out = << >>
   /\ linesSent = 0
   /\ nread = 0
   /\ tickCount = 0
   /\ castOverflow = CastOutcomes
   /\ snap = Snapshot @@ Resumed(phase, tickCount)

\* return from a call: continue at the label on top of the stack
Return == /\ pc' = Head(stack)
          /\ stack' = Tail(stack)
\* call: continue at entry and come back to ret
Call(entry, ret) == /\ pc' = entry
                    /\ stack' = <<ret>> \o stack

\* ------------------------------------------------------ onSampleTick
\* Mutant: the second index is not wrapped
TickIndexNoWrap(p, tableSize) ==
   LET pos   == MulPhase(p, tableSize)
       fl    == FloorPos(pos)
       idx0  == IF fl >= tableSize THEN fl % tableSize ELSE fl
   IN  [idx0 |-> idx0, idx1 |-> idx0 + 1, whole |-> fl - idx0, part |-> FracPos(pos)]

\* lines 61-67: the two table indices and the interpolation fraction for phase p.
\* frac = pos - (float)idx0 is kept as whole + part / 2^30.
TickIndex(p, tableSize) ==
   LET pos   == MulPhase(p, tableSize)
       fl    == FloorPos(pos)
       idx0  == IF fl >= tableSize THEN fl % tableSize ELSE fl
       idx1a == idx0 + 1
       idx1  == IF idx1a >= tableSize THEN idx1a - tableSize ELSE idx1a
   IN  [idx0 |-> idx0, idx1 |-> idx1, whole |-> fl - idx0, part |-> FracPos(pos)]

\* lines 70-72: sample = s0 + (s1 - s0) * frac
TickSample(table, p, tableSize) ==
   LET ix == TickIndex(p, tableSize)
       s0 == table[ix.idx0]
       s1 == table[ix.idx1]
   IN  s0 + (s1 - s0) * ix.whole + MulFrac(s1 - s0, ix.part)

\* Mutant: the sample is written without the amplitude scale
TickDutyUnscaled(a_scale, sample) ==
   IF sample < 0 THEN 0 ELSE IF sample > ONE15 THEN ONE15 ELSE sample

\* the duty that is not a number, the one value of pwmDuty outside 0..2^15
DUTY_NAN == 0 - 1

\* lines 75-79: duty = a_scale * sample, brought into [0, 1] by the two tests
\* of lines 76-77 and written. The product of the binary32 a_scale and the
\* sample (units of 2^-15) is rounded to binary32, and the duty is kept in whole
\* units of 2^-15. A product that is not a number (a_scale not a number, or an
\* infinite a_scale with a sample of 0) passes both tests and is written as it
\* is; an infinite product is brought to 0 or 1 by its sign.
TickDuty(a_scale, sample) ==
   IF a_scale.cls = "nan" THEN DUTY_NAN
   ELSE IF a_scale.cls = "inf"
   THEN (IF sample = 0 THEN DUTY_NAN
         ELSE IF a_scale.neg # (sample < 0) THEN 0 ELSE ONE15)
   ELSE IF a_scale.mant = 0 \/ sample = 0 \/ a_scale.neg # (sample < 0) THEN 0
   ELSE Only({IF duty.cls = "inf" \/ duty.exp >= 0 THEN ONE15
              ELSE IF duty.exp <= 0 - 24 THEN 0
              ELSE Min(duty.mant \div Pow2(0 - duty.exp), ONE15) :
                 duty \in {F32Round(FALSE,
                                    BigMulAdd(BigOfInt(a_scale.mant),
                                              IF sample < 0 THEN 0 - sample ELSE sample, 0),
                                    FALSE, a_scale.exp)}})

\* Mutant: the phase is advanced and never wrapped
TickAdvanceNoWrap(p, tableSize) == RoundF32(p + StepFor(tableSize))

\* lines 82-84: p += 1.0f / tableSize; if (p >= 1.0f) p -= 1.0f
TickAdvance(p, tableSize) ==
   LET q == RoundF32(p + StepFor(tableSize))
   IN  IF q >= ONE30 THEN q - ONE30 ELSE q

\* Mutant: onSampleTick of the previous firmware version, which does not look
\* at the table size before it uses it: for a size of zero or less it reads
\* entry 0, writes the PWM and adds 1 / tableSize to phase (which leaves [0, 1):
\* for size zero the sum is infinite and is kept here as 1)
onSampleTickPrevious ==
   IF currentTableSize <= 0
   THEN /\ pwmDuty' = TickDuty(amplitude_scale, sineTable[0])
        /\ phase' = IF currentTableSize = 0 THEN ONE30
                    ELSE phase - ONE30 \div (0 - currentTableSize)
   ELSE /\ pwmDuty' = TickDuty(amplitude_scale,
                               TickSample(sineTable, phase, currentTableSize))
        /\ phase' = TickAdvance(phase, currentTableSize)

\* lines 53-86: one call of onSampleTick, which runs to completion
onSampleTick ==
   IF currentTableSize <= 0
   THEN UNCHANGED <<pwmDuty, phase>>
   ELSE /\ pwmDuty' = TickDuty(amplitude_scale,
                               TickSample(sineTable, phase, currentTableSize))
        /\ phase' = TickAdvance(phase, currentTableSize)

\* The interrupt. The mbed Ticker delivers it only while attached.
Tick ==
   /\ sampleTicker.attached
   /\ tickCount < MaxTicks
   /\ tickCount' = tickCount + 1
   /\ onSampleTick
   /\ snap' = [snap EXCEPT !.phase = 0 - 1, !.ticks = 0 - 1]
   /\ UNCHANGED <<pc, stack, sineTable, currentTableSize, tickerAttached, amplitude_v,
                  amplitude_scale, frequency, currentIntervalUs, sampleTicker,
                  locals, serial, castOverflow>>

\* ---------------------------------------------------- buildSineTable
\* lines 90-91
BuildEntry ==
   /\ pc = "b_entry"
   /\ IF bSize <= 0
      THEN /\ Return
           /\ bSize' = 0
           /\ bI' = 0
      ELSE /\ pc' = "b_loop"
           /\ bSize' = Min(bSize, MAX_TABLE_SIZE)
           /\ bI' = 0
           /\ UNCHANGED stack
   /\ UNCHANGED <<shared, line, freq, amp, newTableSize, argAmp, argFreq, argSize, argUs,
                  serial, tickCount, castOverflow, snap>>

\* lines 92-94, one iteration
BuildStore ==
   /\ pc = "b_loop"
   /\ bI < bSize
   /\ sineTable' = [sineTable EXCEPT ![bI] = SineEntry(bI, bSize)]
   /\ bI' = bI + 1
   /\ UNCHANGED <<pc, stack, phase, currentTableSize, tickerAttached, amplitude_v,
                  amplitude_scale, frequency, currentIntervalUs, sampleTicker, pwmDuty,
                  line, freq, amp, newTableSize, argAmp, argFreq, argSize, argUs, bSize,
                  serial, tickCount, castOverflow, snap>>

\* line 92, loop exit, and the return
BuildReturn ==
   /\ pc = "b_loop"
   /\ bI >= bSize
   /\ Return
   /\ bSize' = 0
   /\ bI' = 0
   /\ UNCHANGED <<shared, line, freq, amp, newTableSize, argAmp, argFreq, argSize, argUs,
                  serial, tickCount, castOverflow, snap>>

\* ---------------------------------------------------- applyAmplitude
\* lines 139-141
ApplyClamp ==
   /\ pc = "a_clamp"
   /\ amplitude_v' = ClampAmplitude(argAmp)
   /\ pc' = "a_scale"
   /\ UNCHANGED <<stack, sineTable, phase, currentTableSize, tickerAttached,
                  amplitude_scale, frequency, currentIntervalUs, sampleTicker, pwmDuty,
                  locals, serial, tickCount, castOverflow, snap>>

\* Mutant: applyAmplitude records the amplitude and leaves the scale for later
ApplyScaleKept ==
   /\ pc = "a_scale"
   /\ pc' = "a_limit"
   /\ UNCHANGED <<stack, shared, locals, serial, tickCount, castOverflow, snap>>

\* Mutant: the new scale is applied on top of the current one
ApplyScaleCompound ==
   /\ pc = "a_scale"
   /\ amplitude_scale' = F32Div(F32Mul(amplitude_scale, amplitude_v), VCC)
   /\ pc' = "a_limit"
   /\ UNCHANGED <<stack, sineTable, phase, currentTableSize, tickerAttached,
                  amplitude_v, frequency, currentIntervalUs, sampleTicker, pwmDuty,
                  locals, serial, tickCount, castOverflow, snap>>

\* line 142: amplitude_scale = amplitude_v / VCC
ApplyScale ==
   /\ pc = "a_scale"
   /\ amplitude_scale' = F32Div(amplitude_v, VCC)
   /\ pc' = "a_limit"
   /\ UNCHANGED <<stack, sineTable, phase, currentTableSize, tickerAttached,
                  amplitude_v, frequency, currentIntervalUs, sampleTicker, pwmDuty,
                  locals, serial, tickCount, castOverflow, snap>>

\* lines 143-145
ApplyLimit ==
   /\ pc = "a_limit"
   /\ amplitude_scale' = ClampScale(amplitude_scale)
   /\ Return
   /\ argAmp' = F32Zero
   /\ UNCHANGED <<sineTable, phase, currentTableSize, tickerAttached,
                  amplitude_v, frequency, currentIntervalUs, sampleTicker, pwmDuty,
                  line, freq, amp, newTableSize, argFreq, argSize, argUs, bSize, bI,
                  serial, tickCount, castOverflow, snap>>

\* ---------------------------------------- updateForFrequencyAndTable
\* lines 110-114
UpdateEntry ==
   /\ pc = "u_entry"
   /\ IF F32Leq(argFreq, F32Zero)
      THEN /\ Return
           /\ argFreq' = F32Zero
           /\ argSize' = 0
           /\ UNCHANGED frequency
      ELSE /\ frequency' = argFreq
           /\ argSize' = IF argSize <= 0 THEN Min(TABLE_SIZE, MAX_TABLE_SIZE)
                         ELSE Min(argSize, MAX_TABLE_SIZE)
           /\ pc' = "u_detach"
           /\ UNCHANGED <<stack, argFreq>>
   /\ UNCHANGED <<sineTable, phase, currentTableSize, tickerAttached, amplitude_v,
                  amplitude_scale, currentIntervalUs, sampleTicker, pwmDuty,
                  line, freq, amp, newTableSize, argAmp, argUs, bSize, bI,
                  serial, tickCount, castOverflow, snap>>

\* Mutant: the ticker is left running while the table is rebuilt
UpdateDetachSkipped ==
   /\ pc = "u_detach"
   /\ pc' = "u_size"
   /\ UNCHANGED <<stack, shared, locals, serial, tickCount, castOverflow, snap>>

\* lines 117-120: detach the ticker while the table is rebuilt
UpdateDetach ==
   /\ pc = "u_detach"
   /\ IF tickerAttached
      THEN /\ sampleTicker' = [sampleTicker EXCEPT !.attached = FALSE]
           /\ tickerAttached' = FALSE
      ELSE UNCHANGED <<sampleTicker, tickerAttached>>
   /\ pc' = "u_size"
   /\ UNCHANGED <<stack, sineTable, phase, currentTableSize, amplitude_v,
                  amplitude_scale, frequency, currentIntervalUs, pwmDuty,
                  locals, serial, tickCount, castOverflow, snap>>

\* Mutant: the phase is reset when the table is rebuilt
UpdateSizeResetPhase ==
   /\ pc = "u_size"
   /\ currentTableSize' = argSize
   /\ phase' = 0
   /\ bSize' = argSize
   /\ Call("b_entry", "u_interval")
   /\ UNCHANGED <<sineTable, tickerAttached, amplitude_v, amplitude_scale,
                  frequency, currentIntervalUs, sampleTicker, pwmDuty,
                  line, freq, amp, newTableSize, argAmp, argFreq, argSize, argUs, bI,
                  serial, tickCount, castOverflow, snap>>

\* lines 123-124: currentTableSize = newTableSize; buildSineTable(currentTableSize)
UpdateSize ==
   /\ pc = "u_size"
   /\ currentTableSize' = argSize
   /\ bSize' = argSize
   /\ Call("b_entry", "u_interval")
   /\ UNCHANGED <<sineTable, phase, tickerAttached, amplitude_v, amplitude_scale,
                  frequency, currentIntervalUs, sampleTicker, pwmDuty,
                  line, freq, amp, newTableSize, argAmp, argFreq, argSize, argUs, bI,
                  serial, tickCount, castOverflow, snap>>

\* lines 128-135: the interval, and the call of attachTickerUs
UpdateInterval ==
   /\ pc = "u_interval"
   /\ \E v \in {IntervalFor(frequency, currentTableSize)} :
         IF v.defined
         THEN /\ currentIntervalUs' = v.us
              /\ UNCHANGED castOverflow
         ELSE \E build \in castOverflow : /\ currentIntervalUs' = CastBy(build, v)
                                          /\ castOverflow' = {build}
   /\ argUs' = currentIntervalUs'
   /\ pc' = "k_detach"
   /\ UNCHANGED <<stack, sineTable, phase, currentTableSize, tickerAttached, amplitude_v,
                  amplitude_scale, frequency, sampleTicker, pwmDuty,
                  line, freq, amp, newTableSize, argAmp, argFreq, argSize, bSize, bI,
                  serial, tickCount, snap>>

\* ---------------------------------------------------- attachTickerUs
\* lines 100-103
AttachDetach ==
   /\ pc = "k_detach"
   /\ IF tickerAttached
      THEN /\ sampleTicker' = [sampleTicker EXCEPT !.attached = FALSE]
           /\ tickerAttached' = FALSE
      ELSE UNCHANGED <<sampleTicker, tickerAttached>>
   /\ pc' = "k_attach"
   /\ UNCHANGED <<stack, sineTable, phase, currentTableSize, amplitude_v,
                  amplitude_scale, frequency, currentIntervalUs, pwmDuty,
                  locals, serial, tickCount, castOverflow, snap>>

\* Mutant: the interval is recorded but the ticker is not started
AttachAttachNotStarted ==
   /\ pc = "k_attach"
   /\ sampleTicker' = [attached |-> FALSE, us |-> argUs]
   /\ pc' = "k_flag"
   /\ UNCHANGED <<stack, sineTable, phase, currentTableSize, tickerAttached, amplitude_v,
                  amplitude_scale, frequency, currentIntervalUs, pwmDuty,
                  locals, serial, tickCount, castOverflow, snap>>

\* line 105: sampleTicker.attach_us(onSampleTick, intervalUs)
AttachAttach ==
   /\ pc = "k_attach"
   /\ sampleTicker' = [attached |-> TRUE, us |-> argUs]
   /\ pc' = "k_flag"
   /\ snap' = [snap EXCEPT !.resumePhase = phase, !.resumeTicks = tickCount]
   /\ UNCHANGED <<stack, sineTable, phase, currentTableSize, tickerAttached, amplitude_v,
                  amplitude_scale, frequency, currentIntervalUs, pwmDuty,
                  locals, serial, tickCount, castOverflow>>

\* line 106, and the returns of attachTickerUs and updateForFrequencyAndTable
AttachFlag ==
   /\ pc = "k_flag"
   /\ tickerAttached' = TRUE
   /\ Return
   /\ argUs' = 0
   /\ argFreq' = F32Zero
   /\ argSize' = 0
   /\ UNCHANGED <<sineTable, phase, currentTableSize, amplitude_v,
                  amplitude_scale, frequency, currentIntervalUs, sampleTicker, pwmDuty,
                  line, freq, amp, newTableSize, argAmp, bSize, bI,
                  serial, tickCount, castOverflow, snap>>

\* ------------------------------------------------------------ setup
\* Mutant: the ready marker is printed as setup starts
SetupBeginAnnounce ==
   /\ pc = "s_begin"
   /\ pwmDuty' = 0
   /\ currentTableSize' = Min(TABLE_SIZE, MAX_TABLE_SIZE)
   /\ out' = Append(out, Msg("ARDUINO_READY"))
   /\ pc' = "s_detach"
   /\ UNCHANGED <<stack, sineTable, phase, tickerAttached, amplitude_v, amplitude_scale,
                  frequency, currentIntervalUs, sampleTicker, locals,
                  buf, bufpos, serialOpen, rx, linesSent, nread, tickCount, castOverflow, snap>>

\* lines 149-150: Serial.begin(115200); while (!Serial) { delay(1); }. Setup
\* goes on once the host has opened the port, and polls until then.
SetupWait ==
   /\ pc = "s_wait"
   /\ pc' = IF serialOpen THEN "s_begin" ELSE pc
   /\ UNCHANGED <<stack, shared, locals, serial, tickCount, castOverflow, snap>>

\* lines 153-160: pwmOut.write(0.0f); currentTableSize = TABLE_SIZE
SetupBegin ==
   /\ pc = "s_begin"
   /\ pwmDuty' = 0
   /\ currentTableSize' = Min(TABLE_SIZE, MAX_TABLE_SIZE)
   /\ pc' = "s_detach"
   /\ UNCHANGED <<stack, sineTable, phase, tickerAttached, amplitude_v, amplitude_scale,
                  frequency, currentIntervalUs, sampleTicker, locals, serial, tickCount, castOverflow, snap>>

\* lines 162-167: detach if attached; buildSineTable(currentTableSize)
SetupDetach ==
   /\ pc = "s_detach"
   /\ IF tickerAttached
      THEN /\ sampleTicker' = [sampleTicker EXCEPT !.attached = FALSE]
           /\ tickerAttached' = FALSE
      ELSE UNCHANGED <<sampleTicker, tickerAttached>>
   /\ bSize' = currentTableSize
   /\ Call("b_entry", "s_phase")
   /\ UNCHANGED <<sineTable, phase, currentTableSize, amplitude_v, amplitude_scale,
                  frequency, currentIntervalUs, pwmDuty,
                  line, freq, amp, newTableSize, argAmp, argFreq, argSize, argUs, bI,
                  serial, tickCount, castOverflow, snap>>

\* lines 170-173: phase = 0.0f; applyAmplitude(amplitude_v)
SetupPhase ==
   /\ pc = "s_phase"
   /\ phase' = 0
   /\ argAmp' = amplitude_v
   /\ Call("a_clamp", "s_policy")
   /\ UNCHANGED <<sineTable, currentTableSize, tickerAttached, amplitude_v,
                  amplitude_scale, frequency, currentIntervalUs, sampleTicker, pwmDuty,
                  line, freq, amp, newTableSize, argFreq, argSize, argUs, bSize, bI,
                  serial, tickCount, castOverflow, snap>>

\* lines 177-186: the default table size; updateForFrequencyAndTable(frequency, size)
SetupPolicy ==
   /\ pc = "s_policy"
   /\ argFreq' = frequency
   /\ argSize' = SetupTableSize(frequency)
   /\ Call("u_entry", "s_ready")
   /\ UNCHANGED <<shared, line, freq, amp, newTableSize, argAmp, argUs, bSize, bI,
                  serial, tickCount, castOverflow, snap>>

\* lines 189-190: Serial.println("ARDUINO_READY"); setup returns and loop runs
SetupReady ==
   /\ pc = "s_ready"
   /\ out' = Append(out, Msg("ARDUINO_READY"))
   /\ pc' = "loop"
   /\ UNCHANGED <<stack, shared, locals, buf, bufpos, serialOpen, rx, linesSent, nread, tickCount, castOverflow, snap>>

\* ------------------------------------------------- processSerialLine
\* Mutant: a frequency of zero is accepted
AcceptedNonNegative(r) == F32Leq(F32Zero, r.freq) /\ F32Leq(F32Zero, r.amp)

\* line 216: freq > 0.0f && amp >= 0.0f
Accepted(r) == F32Less(F32Zero, r.freq) /\ F32Leq(F32Zero, r.amp)

\* Mutant: the requested amplitude is kept, as the previous firmware version did
ReportedAmpRequested(a) == a

\* line 229: if (amp > VCC) amp = VCC, the amplitude that is applied and printed
ReportedAmp(a) == IF F32Less(VCC, a) THEN VCC ELSE a

\* lines 195-232, accepting branch: table size, amplitude clamp, applyAmplitude(amp)
ProcessAccept ==
   /\ pc = "p_parse"
   /\ \E r \in {ParseLine(line)} :
      /\ Accepted(r)
      /\ freq' = r.freq
      /\ newTableSize' = CommandTableSize(r.freq)
      /\ amp' = ReportedAmp(r.amp)
      /\ argAmp' = ReportedAmp(r.amp)
   /\ Call("a_clamp", "p_update")
   /\ snap' = Snapshot @@ Resumed(snap.resumePhase, snap.resumeTicks)
   /\ UNCHANGED <<shared, line, argFreq, argSize, argUs, bSize, bI, serial, tickCount,
                  castOverflow>>

\* Mutant: the rejecting branch prints NACK alone
ProcessRejectTerse ==
   /\ pc = "p_parse"
   /\ ~Accepted(ParseLine(line))
   /\ out' = out \o <<Msg("NACK")>>
   /\ Return
   /\ UNCHANGED <<shared, locals, buf, bufpos, serialOpen, rx, linesSent, nread, tickCount, castOverflow, snap>>

\* lines 195-216 and 245-249, rejecting branch: NACK, PARSE_ERROR
ProcessReject ==
   /\ pc = "p_parse"
   /\ ~Accepted(ParseLine(line))
   /\ out' = out \o <<Msg("NACK"), Msg("PARSE_ERROR")>>
   /\ Return
   /\ UNCHANGED <<shared, locals, buf, bufpos, serialOpen, rx, linesSent, nread, tickCount, castOverflow, snap>>

\* line 233: updateForFrequencyAndTable(freq, newTableSize)
ProcessUpdate ==
   /\ pc = "p_update"
   /\ argFreq' = freq
   /\ argSize' = newTableSize
   /\ Call("u_entry", "p_ack")
   /\ UNCHANGED <<shared, line, freq, amp, newTableSize, argAmp, argUs, bSize, bI,
                  serial, tickCount, castOverflow, snap>>

\* lines 235-244: ACK and the detail line
ProcessAck ==
   /\ pc = "p_ack"
   /\ out' = out \o <<Msg("ACK"),
                      [tag |-> "APPLIED", freq |-> SerialPrint3(freq),
                       amp |-> SerialPrint3(amp),
                       tableSize |-> currentTableSize,
                       interval_us |-> currentIntervalUs]>>
   /\ Return
   /\ freq' = F32Zero
   /\ amp' = F32Zero
   /\ newTableSize' = 0
   /\ UNCHANGED <<shared, line, argAmp, argFreq, argSize, argUs, bSize, bI,
                  buf, bufpos, serialOpen, rx, linesSent, nread, tickCount, castOverflow, snap>>

\* ------------------------------------------------------------- loop
\* The host opens the serial port. Nothing makes it do so.
HostOpen ==
   /\ ~serialOpen
   /\ serialOpen' = TRUE
   /\ UNCHANGED <<pc, stack, shared, locals, buf, bufpos, rx, out, linesSent, nread,
                  tickCount, castOverflow, snap>>

\* The host writes one line, and its newline, to the port it has opened: at
\* any time during setup, and afterwards once the firmware is back in loop
\* with the previous line read (the bytes wait in rx until loop reads them, so
\* a line that arrives while a command is applied behaves as one that arrives
\* just after it).
HostSend ==
   /\ serialOpen
   /\ linesSent < MaxLines
   /\ rx = << >>
   /\ pc = "loop"
      \/ pc \in {"s_wait", "s_begin", "s_detach", "s_phase", "s_policy", "s_ready"}
      \/ (stack # << >> /\ stack[Len(stack)] \in {"s_phase", "s_policy", "s_ready"})
   /\ \E l \in Lines : rx' = l \o <<"\n">>
   /\ linesSent' = linesSent + 1
   /\ UNCHANGED <<pc, stack, shared, locals, buf, bufpos, serialOpen, out, nread, tickCount, castOverflow, snap>>

\* lines 257-260: a carriage return is dropped
LoopSkipCR ==
   /\ pc = "loop"
   /\ rx # << >>
   /\ Head(rx) = "\r"
   /\ rx' = Tail(rx)
   /\ nread' = nread + 1
   /\ UNCHANGED <<pc, stack, shared, locals, buf, bufpos, serialOpen, out, linesSent, tickCount, castOverflow, snap>>

\* processSerialLine(buf): the handler is handed the buffer and reads it as a C
\* string, the bytes before the first NUL
CString(b) == SubSeq(b, 1, FirstOf({i \in 1..Len(b) : b[i] = NUL}, Len(b) + 1) - 1)

\* Mutant: a byte that finds the buffer full ends the line and is left to be
\* read again as the first byte of the next line
LoopDispatchKeepByte ==
   /\ pc = "loop"
   /\ rx # << >>
   /\ Head(rx) # "\r"
   /\ Head(rx) = "\n" \/ bufpos >= BUF_SIZE - 1
   /\ bufpos > 0
   /\ rx' = IF Head(rx) = "\n" THEN Tail(rx) ELSE rx
   /\ nread' = IF Head(rx) = "\n" THEN nread + 1 ELSE nread
   /\ line' = CString(SubSeq(buf, 1, bufpos))
   /\ Call("p_parse", "l_reset")
   /\ UNCHANGED <<shared, freq, amp, newTableSize, argAmp, argFreq, argSize, argUs,
                  bSize, bI, buf, bufpos, serialOpen, out, linesSent, tickCount, castOverflow, snap>>

\* lines 261-265: end of line (or buffer full) with bytes in the buffer
LoopDispatch ==
   /\ pc = "loop"
   /\ rx # << >>
   /\ Head(rx) # "\r"
   /\ Head(rx) = "\n" \/ bufpos >= BUF_SIZE - 1
   /\ bufpos > 0
   /\ rx' = Tail(rx)
   /\ nread' = nread + 1
   /\ line' = CString(SubSeq(buf, 1, bufpos))
   /\ Call("p_parse", "l_reset")
   /\ UNCHANGED <<shared, freq, amp, newTableSize, argAmp, argFreq, argSize, argUs,
                  bSize, bI, buf, bufpos, serialOpen, out, linesSent, tickCount, castOverflow, snap>>

\* lines 261-266: end of line with an empty buffer
LoopEmptyLine ==
   /\ pc = "loop"
   /\ rx # << >>
   /\ Head(rx) # "\r"
   /\ Head(rx) = "\n" \/ bufpos >= BUF_SIZE - 1
   /\ bufpos <= 0
   /\ rx' = Tail(rx)
   /\ nread' = nread + 1
   /\ bufpos' = 0
   /\ buf' = << >>
   /\ UNCHANGED <<pc, stack, shared, locals, serialOpen, out, linesSent, tickCount, castOverflow, snap>>

\* line 266, after processSerialLine has returned
LoopReset ==
   /\ pc = "l_reset"
   /\ bufpos' = 0
   /\ buf' = << >>
   /\ line' = << >>
   /\ pc' = "loop"
   /\ UNCHANGED <<stack, shared, freq, amp, newTableSize, argAmp, argFreq, argSize, argUs,
                  bSize, bI, serialOpen, rx, out, linesSent, nread, tickCount, castOverflow, snap>>

\* Mutant: the byte is stored without looking at bufpos
LoopStoreUnchecked ==
   /\ pc = "loop"
   /\ rx # << >>
   /\ Head(rx) # "\r"
   /\ Head(rx) # "\n"
   /\ buf' = Append(buf, Head(rx))
   /\ bufpos' = bufpos + 1
   /\ rx' = Tail(rx)
   /\ nread' = nread + 1
   /\ UNCHANGED <<pc, stack, shared, locals, serialOpen, out, linesSent, tickCount, castOverflow, snap>>

\* lines 267-269: the byte is stored
LoopStore ==
   /\ pc = "loop"
   /\ rx # << >>
   /\ Head(rx) # "\r"
   /\ ~(Head(rx) = "\n" \/ bufpos >= BUF_SIZE - 1)
   /\ buf' = Append(buf, Head(rx))
   /\ bufpos' = bufpos + 1
   /\ rx' = Tail(rx)
   /\ nread' = nread + 1
   /\ UNCHANGED <<pc, stack, shared, locals, serialOpen, out, linesSent, tickCount, castOverflow, snap>>

\* ------------------------------------------------------ specification
Main ==
   \/ SetupWait \/ SetupBegin \/ SetupDetach \/ SetupPhase \/ SetupPolicy \/ SetupReady
   \/ BuildEntry \/ BuildStore \/ BuildReturn
   \/ ApplyClamp \/ ApplyScale \/ ApplyLimit
   \/ UpdateEntry \/ UpdateDetach \/ UpdateSize \/ UpdateInterval
   \/ AttachDetach \/ AttachAttach \/ AttachFlag
   \/ ProcessAccept \/ ProcessReject \/ ProcessUpdate \/ ProcessAck
   \/ LoopSkipCR \/ LoopDispatch \/ LoopEmptyLine \/ LoopReset \/ LoopStore

Next == Main \/ Tick \/ HostOpen \/ HostSend

Spec == Init /\ [][Next]_vars

\* The same program under its scheduling: the processor keeps executing the
\* main context (setup, then loop, which polls the serial port for ever), and
\* the mbed Ticker keeps raising its interrupt while it is attached. Nothing is
\* assumed of the host: while it has not opened the port, setup stays in the
\* wait of line 150, and while it has sent nothing, loop finds nothing to read.
\* Both conditions are weak fairness, WF_vars(Main) and WF_vars(Tick), with the
\* enabling conditions written out. The main context can take a step that
\* changes the state everywhere but in the wait of line 150 with the port
\* closed and in loop with no byte to read, and a step is a step of the main
\* context when it is neither a tick (which counts in tickCount) nor a step of
\* the host (which opens the port or counts a line in linesSent). A tick is
\* possible exactly when TickEnabled holds, and every tick changes tickCount.
MainEnabled ==
   /\ ~(pc = "s_wait" /\ ~serialOpen)
   /\ ~(pc = "loop" /\ rx = << >>)
MainStep ==
   /\ tickCount' = tickCount
   /\ serialOpen' = serialOpen
   /\ linesSent' = linesSent
TickEnabled == sampleTicker.attached /\ tickCount < MaxTicks

SpecLive ==
   /\ Spec
   /\ ([]<>(~MainEnabled) \/ []<><<MainStep>>_vars)
   /\ ([]<>(~TickEnabled) \/ []<><<tickCount' # tickCount>>_vars)

\* ------------------------------------------- a stream of bytes waiting
\* The host has written a whole stream before the firmware reads its first
\* byte (the bytes wait in the receive buffer of the serial port): lines back
\* to back, empty lines, carriage returns, and lines of more than
\* sizeof(buf) - 1 bytes.
Rep(c, n) == [i \in 1..n |-> c]

LineMixed    == <<"5", "0", "0", " ", "a", "m", "p", "l", "i", "t", "u", "d", "e", " ", "2">>
LineThree    == <<"5", "0", "0", " ", "3", ".", "3", " ", "7">>
LineKeywords == <<"f", "r", "e", "q", "u", "e", "n", "c", "y", " ", "7", "0", "0", " ", "a", "m", "p", "l", "i", "t", "u", "d", "e", " ", "1", ".", "5">>
LineHalf     == <<"5", "0", "0">>

\* an empty line ended by CR LF, two lines, an empty line
StreamLines == <<"\r", "\n">> \o Line500_1 \o <<"\r", "\n">> \o LineHello
               \o <<"\n", "\n">>
\* lines that are not two numbers
StreamParse == LineMixed \o <<"\n">> \o LineThree \o <<"\n">> \o LineHalf
               \o <<"\n">> \o LineKeywords \o <<"\n">>
\* "500 1" padded with spaces to sizeof(buf) - 1 bytes, then two more bytes
StreamOverflowAck == Line500_1 \o Rep(" ", BUF_SIZE - 1 - Len(Line500_1))
                     \o <<"7", "\n">>
\* sizeof(buf) - 1 letters with a carriage return among them, then three bytes
StreamOverflowNack == Rep("x", 100) \o <<"\r">> \o Rep("x", BUF_SIZE - 101)
                      \o <<"y", "z", "\n">>
\* exactly sizeof(buf) - 1 letters and the newline
StreamExact == Rep("x", BUF_SIZE - 1) \o <<"\n">>

\* lines with a NUL byte among their bytes: after a keyword, and after "500 1"
StreamNul == <<"f", "r", "e", "q", "u", "e", "n", "c", "y", " ", "7", "0", "0", NUL>>
             \o <<" ", "a", "m", "p", "l", "i", "t", "u", "d", "e", " ", "1", ".", "5", "\n">>
             \o Line500_1 \o <<NUL, "h", "e", "l", "l", "o", "\n">>
\* "500 1", a NUL byte and letters up to sizeof(buf) - 1 bytes, then three more
\* bytes
StreamOverflowNul == Line500_1 \o <<NUL>> \o Rep("x", BUF_SIZE - 2 - Len(Line500_1))
                     \o <<"8", "9", "\n">>

Streams == {StreamLines, StreamParse, StreamOverflowAck, StreamOverflowNack,
            StreamExact, StreamNul, StreamOverflowNul}

BufferInit ==
   /\ pc = "s_wait"
   /\ stack = << >>
   /\ sineTable = [i \in 0..(MAX_TABLE_SIZE - 1) |-> 0]
   /\ phase = 0
   /\ currentTableSize = DEFAULT_TABLE_SIZE
   /\ tickerAttached = FALSE
   /\ amplitude_v = DEFAULT_AMPLITUDE_V
   /\ amplitude_scale = DEFAULT_AMPLITUDE_SCALE
   /\ frequency = DEFAULT_FREQUENCY
   /\ currentIntervalUs = 0
   /\ sampleTicker = [attached |-> FALSE, us |-> 0]
   /\ pwmDuty = 0
   /\ buf = << >>
   /\ bufpos = 0
   /\ line = << >>
   /\ freq = F32Zero
   /\ amp = F32Zero
   /\ newTableSize = 0
   /\ argAmp = F32Zero
   /\ argFreq = F32Zero
   /\ argSize = 0
   /\ argUs = 0
   /\ bSize = 0
   /\ bI = 0
   /\ serialOpen = TRUE
   /\ rx \in Streams
   /\ out = << >>
   /\ linesSent = 1
   /\ nread = 0
   /\ tickCount = 0
   /\ castOverflow = CastOutcomes
   /\ snap = Snapshot @@ Resumed(phase, tickCount)

NextBuffer == Main \/ Tick

SpecBuffer == BufferInit /\ [][NextBuffer]_vars

\* ------------------------------------------- the oscillator over cycles
\* The firmware with a stream of commands waiting, and enough ticks for whole
\* output cycles of the smaller tables. A tick is taken wherever the ticker is
\* attached, inside the handler too.
MaxCycleTicks == 30

Line1000_1 == <<"1", "0", "0", "0", " ", "1">>

\* table size 20, then 30
StreamDown == Line2000_5 \o <<"\n">> \o Line1000_1 \o <<"\n">>
\* table size 30, then 20, with a rejected line, a CR and an empty line between
StreamUp == Line1000_1 \o <<"\n">> \o LineHello \o <<"\r", "\n", "\n">>
            \o Line2000_5 \o <<"\n">>
\* table size 50
StreamOne == Line500_1 \o <<"\n">>

CycleStreams == {StreamDown, StreamUp, StreamOne}

CycleInit ==
   /\ pc = "s_wait"
   /\ stack = << >>
   /\ sineTable = [i \in 0..(MAX_TABLE_SIZE - 1) |-> 0]
   /\ phase = 0
   /\ currentTableSize = DEFAULT_TABLE_SIZE
   /\ tickerAttached = FALSE
   /\ amplitude_v = DEFAULT_AMPLITUDE_V
   /\ amplitude_scale = DEFAULT_AMPLITUDE_SCALE
   /\ frequency = DEFAULT_FREQUENCY
   /\ currentIntervalUs = 0
   /\ sampleTicker = [attached |-> FALSE, us |-> 0]
   /\ pwmDuty = 0
   /\ buf = << >>
   /\ bufpos = 0
   /\ line = << >>
   /\ freq = F32Zero
   /\ amp = F32Zero
   /\ newTableSize = 0
   /\ argAmp = F32Zero
   /\ argFreq = F32Zero
   /\ argSize = 0
   /\ argUs = 0
   /\ bSize = 0
   /\ bI = 0
   /\ serialOpen = TRUE
   /\ rx \in CycleStreams
   /\ out = << >>
   /\ linesSent = 1
   /\ nread = 0
   /\ tickCount = 0
   /\ castOverflow = CastOutcomes
   /\ snap = Snapshot @@ Resumed(phase, tickCount)

CycleTick ==
   /\ sampleTicker.attached
   /\ tickCount < MaxCycleTicks
   /\ tickCount' = tickCount + 1
   /\ onSampleTick
   /\ snap' = [snap EXCEPT !.phase = 0 - 1, !.ticks = 0 - 1]
   /\ UNCHANGED <<pc, stack, sineTable, currentTableSize, tickerAttached, amplitude_v,
                  amplitude_scale, frequency, currentIntervalUs, sampleTicker,
                  locals, serial, castOverflow>>

NextCycle == Main \/ CycleTick

SpecCycle == CycleInit /\ [][NextCycle]_vars

\* --------------------------------------------------- onSampleTick alone
\* onSampleTick as a function of the shared variables it reads: the table size
\* (degenerate sizes included), the phase and the amplitude scale.
ProbeSizes == {0 - 1, 0, 20, 30, 50, 100, MAX_TABLE_SIZE}
\* 0, 2^-23, 1/4, 1/2 and 1 - 2^-24, in units of 2^-30
ProbePhases == {0, 128, ONE30 \div 4, ONE30 \div 2, ONE30 - 64}
\* amplitude_scale 0, 1/2 and 1
ProbeScales == {F32Zero, F32Literal(<<5>>, 0 - 1), F32OfInt(1)}

\* the table as buildSineTable(n) leaves a cleared array: untouched for a
\* size of zero or less (line 90), and built for MAX_TABLE_SIZE entries for a
\* size beyond it (line 91)
TableFor(n) ==
   [i \in 0..(MAX_TABLE_SIZE - 1) |->
       IF i < Min(n, MAX_TABLE_SIZE) THEN SineEntry(i, Min(n, MAX_TABLE_SIZE)) ELSE 0]

TickInit ==
   /\ pc = "loop"
   /\ stack = << >>
   /\ currentTableSize \in ProbeSizes
   /\ sineTable = TableFor(currentTableSize)
   /\ phase \in ProbePhases
   /\ tickerAttached = TRUE
   /\ amplitude_scale \in ProbeScales
   /\ amplitude_v = F32Mul(amplitude_scale, VCC)
   /\ frequency = DEFAULT_FREQUENCY
   /\ currentIntervalUs = 100
   /\ sampleTicker = [attached |-> TRUE, us |-> 100]
   /\ pwmDuty \in {0, ONE15}
   /\ buf = << >>
   /\ bufpos = 0
   /\ line = << >>
   /\ freq = F32Zero
   /\ amp = F32Zero
   /\ newTableSize = 0
   /\ argAmp = F32Zero
   /\ argFreq = F32Zero
   /\ argSize = 0
   /\ argUs = 0
   /\ bSize = 0
   /\ bI = 0
   /\ serialOpen = TRUE
   /\ rx = << >>
   /\ out = << >>
   /\ linesSent = 0
   /\ nread = 0
   /\ tickCount = 0
   /\ castOverflow = CastOutcomes
   /\ snap = Snapshot @@ Resumed(phase, tickCount)

SpecTick == TickInit /\ [][Tick]_vars

\* ------------------------------------------- the table-size policy alone
\* Frequencies around every band edge, for the two copies of the
\* policy (setup and processSerialLine) applied as pure functions.
ProbeFreqs ==
   {F32Literal(<<1>>, 0 - 16), F32Literal(<<5>>, 0 - 1),
    F32Literal(<<1, 4, 9, 9, 9, 9>>, 0 - 3), F32OfInt(150),
    F32Literal(<<1, 5, 0, 0, 0, 0, 1>>, 0 - 4),
    F32OfInt(300), F32Literal(<<3, 0, 0, 0, 0, 1>>, 0 - 3),
    F32OfInt(600), F32Literal(<<6, 0, 0, 0, 0, 1>>, 0 - 3),
    F32OfInt(1200), F32Literal(<<1, 2, 0, 0, 0, 0, 1>>, 0 - 3),
    F32OfInt(1600), F32OfInt(900000), F32Inf(FALSE)}

PolicyInit ==
   /\ pc = "policy"
   /\ stack = << >>
   /\ sineTable = [i \in 0..(MAX_TABLE_SIZE - 1) |-> 0]
   /\ phase = 0
   /\ currentTableSize = DEFAULT_TABLE_SIZE
   /\ tickerAttached = FALSE
   /\ amplitude_v = DEFAULT_AMPLITUDE_V
   /\ amplitude_scale = DEFAULT_AMPLITUDE_SCALE
   /\ frequency = DEFAULT_FREQUENCY
   /\ currentIntervalUs = 0
   /\ sampleTicker = [attached |-> FALSE, us |-> 0]
   /\ pwmDuty = 0
   /\ buf = << >>
   /\ bufpos = 0
   /\ line = << >>
   /\ freq \in ProbeFreqs
   /\ argFreq \in ProbeFreqs
   /\ amp = F32Zero
   /\ newTableSize = 0
   /\ argAmp = F32Zero
   /\ argSize = 0
   /\ argUs = 0
   /\ bSize = 0
   /\ bI = 0
   /\ serialOpen = TRUE
   /\ rx = << >>
   /\ out = << >>
   /\ linesSent = 0
   /\ nread = 0
   /\ tickCount = 0
   /\ castOverflow = CastOutcomes
   /\ snap = Snapshot @@ Resumed(phase, tickCount)

\* newTableSize: the handler's policy at freq; argSize: setup's policy at freq;
\* bSize: the handler's policy at argFreq
PolicyApply ==
   /\ pc = "policy"
   /\ newTableSize' = CommandTableSize(freq)
   /\ argSize' = SetupTableSize(freq)
   /\ bSize' = CommandTableSize(argFreq)
   /\ pc' = "policy_done"
   /\ UNCHANGED <<stack, shared, line, freq, amp, argAmp, argFreq, argUs, bI,
                  serial, tickCount, castOverflow, snap>>

SpecPolicy == PolicyInit /\ [][PolicyApply]_vars

\* ============================================================ claims
SetupLabels == {"s_wait", "s_begin", "s_detach", "s_phase", "s_policy", "s_ready"}
\* setup has not returned yet
InSetup ==
   \/ pc \in SetupLabels
   \/ (stack # << >> /\ stack[Len(stack)] \in SetupLabels)

HasApplied == \E i \in DOMAIN out : out[i].tag = "APPLIED"
\* the detail line of the latest accepted command
LastApplied ==
   out[CHOOSE i \in DOMAIN out :
          /\ out[i].tag = "APPLIED"
          /\ \A j \in DOMAIN out : out[j].tag = "APPLIED" => j <= i]

\* the floats 1.0 and 1.0 / 3.3, and what the port prints for 1, 3.3 and 500
ONE_VOLT      == F32OfInt(1)
ONE_VOLT_SCALE == F32Div(F32OfInt(1), VCC)
Text1_000     == <<"1", ".", "0", "0", "0">>
Text3_300     == <<"3", ".", "3", "0", "0">>
Text500_000   == <<"5", "0", "0", ".", "0", "0", "0">>
\* the line recovers a frequency > 0 and an amplitude >= 0
RecoversPair(r) == F32Less(F32Zero, r.freq) /\ F32Leq(F32Zero, r.amp)

\* C1: the table and currentTableSize are written only while the ticker is
\* detached, and whenever the ticker is attached (a tick may run) the entries
\* [0, currentTableSize) are exactly the sine built for currentTableSize.
C1_TableWrittenDetached ==
   /\ (pc \in {"s_begin", "u_size"} \/ (pc = "b_loop" /\ bI < bSize))
         => ~sampleTicker.attached
   /\ sampleTicker.attached
         => (currentTableSize \in 1..MAX_TABLE_SIZE /\ TableBuilt)

\* a tick has sampled the table that a command rebuilt for size 20
C1_TickAfterRebuild ==
   /\ sampleTicker.attached
   /\ currentTableSize = 20
   /\ tickCount = 1
   /\ phase = StepFor(20)
   /\ pwmDuty > 0

\* C2: when the handler recovers no pair with frequency > 0 and amplitude >= 0
\* (as for "hello world" and "0 1"), its one step prints NACK and PARSE_ERROR,
\* returns, and leaves the table, the table size, the amplitude, the frequency,
\* the interval, the ticker and the phase as they were.
C2_RejectChangesNothing ==
   [][ ( /\ pc = "p_parse"
         /\ pc' # "p_parse"
         /\ \/ line \in {LineHello, Line0_1}
            \/ ~RecoversPair(ParseLine(line)) )
       => ( /\ out' = out \o <<Msg("NACK"), Msg("PARSE_ERROR")>>
            /\ pc' = "l_reset"
            /\ UNCHANGED <<sineTable, currentTableSize, amplitude_v, amplitude_scale,
                           frequency, currentIntervalUs, sampleTicker, tickerAttached,
                           phase, pwmDuty>> ) ]_vars

\* "0 1" has been rejected after "500 1" was applied, and the applied state stands
C2_RejectedAfterApply ==
   /\ pc = "l_reset"
   /\ line = Line0_1
   /\ out[Len(out)].tag = "PARSE_ERROR"
   /\ out[Len(out) - 1].tag = "NACK"
   /\ currentTableSize = 50
   /\ amplitude_v = ONE_VOLT
   /\ sampleTicker.attached

\* no command is being applied: the latest accepted one is complete
ApplyDone == pc \in {"loop", "l_reset", "p_parse"} /\ HasApplied

\* the whole units of 2^-15 in a float x >= 0
Units15(x) ==
   IF x.mant = 0 THEN 0
   ELSE IF x.exp + 15 >= 0 THEN x.mant * Pow2(x.exp + 15)
   ELSE IF x.exp + 15 <= 0 - 24 THEN 0
   ELSE x.mant \div Pow2(0 - (x.exp + 15))

\* C3: every duty a tick writes is in [0, 1], and a tick that runs after an
\* accepted command is complete (and before the next one is accepted) writes a
\* duty of at most amplitude / VCC (the float quotient, as the program forms
\* it), for the amplitude that command applied.
C3_DutyWithinAmplitude ==
   [][ (tickCount' # tickCount /\ currentTableSize > 0)
       => ( /\ pwmDuty' >= 0
            /\ pwmDuty' <= ONE15
            /\ ApplyDone => pwmDuty' <= Units15(F32Div(amplitude_v, VCC)) ) ]_vars

\* one tick has run after "500 1" was applied: duty 0.5 * 1.0 / 3.3
C3_TickAfterApply ==
   /\ pc = "loop"
   /\ linesSent = 1
   /\ HasApplied
   /\ LastApplied.amp = Text1_000
   /\ amplitude_v = ONE_VOLT
   /\ tickCount = 1
   /\ phase = StepFor(50)
   /\ pwmDuty > 0
   /\ pwmDuty <= Units15(ONE_VOLT_SCALE)

\* C4: a line with frequency > 0 and amplitude > VCC is acknowledged, leaves
\* amplitude_v at VCC and amplitude_scale at 1, and its detail line prints the
\* clamped amplitude 3.300.
C4_AmplitudeClamped ==
   (pc = "l_reset" /\ LET r == ParseLine(line)
                       IN  F32Less(F32Zero, r.freq) /\ F32Less(VCC, r.amp))
      => /\ Len(out) >= 2
         /\ out[Len(out) - 1].tag = "ACK"
         /\ out[Len(out)].tag = "APPLIED"
         /\ out[Len(out)].amp = Text3_300
         /\ amplitude_v = VCC
         /\ amplitude_scale = DEFAULT_AMPLITUDE_SCALE

\* "2000 5" has been applied on top of an amplitude of 1 V
C4_ClampedAfterOneVolt ==
   /\ pc = "l_reset"
   /\ line = Line2000_5
   /\ snap.amplitude = ONE_VOLT
   /\ snap.scale = ONE_VOLT_SCALE
   /\ amplitude_v = VCC
   /\ out[Len(out)].amp = Text3_300

\* C5 as stated: for an accepted command whose frequency is the one in effect
\* (only the amplitude changes), phase when the apply (applyAmplitude, then
\* updateForFrequencyAndTable) has returned equals phase when it began, ticks
\* being delivered wherever the ticker is attached.
C5_PhaseSameAfterApply ==
   [][ (pc = "k_flag" /\ pc' = "p_ack" /\ snap.frequency = freq)
       => phase' = snap.phase ]_vars

\* C5, amended: no statement of the apply writes phase. After setup, only a tick
\* changes phase, and for an accepted command whose frequency is the one in
\* effect, phase when the apply has returned equals phase when it began provided
\* no tick was delivered in between.
C5_ApplyNeverWritesPhase ==
   [][ /\ (tickCount' = tickCount /\ ~InSetup) => phase' = phase
       /\ (pc = "k_flag" /\ pc' = "p_ack" /\ snap.frequency = freq
                         /\ tickCount = snap.ticks)
          => phase' = snap.phase ]_vars

\* an amplitude-only command has been applied at a phase other than 0, with no
\* tick during the apply
C5_AmplitudeOnlyNoTick ==
   /\ pc = "p_ack"
   /\ snap.frequency = freq
   /\ amp # snap.amplitude
   /\ tickCount = snap.ticks
   /\ tickCount > 0
   /\ phase # 0
   /\ phase = snap.phase

\* C6: when an accepted command repeats the frequency and amplitude of the
\* accepted command before it, then once it is applied the table is again the
\* one built for the table size, and the table size, the interval, the
\* amplitude scale and the ticker's attached state are what they were after the
\* first apply.
C6_SameCommandSameConfiguration ==
   (pc = "p_ack" /\ HasApplied /\ snap.frequency = freq /\ snap.amplitude = amp)
      => /\ snap.built
         /\ TableBuilt
         /\ currentTableSize = snap.tableSize
         /\ currentIntervalUs = snap.interval_us
         /\ sampleTicker.us = snap.interval_us
         /\ amplitude_scale = snap.scale
         /\ sampleTicker.attached = snap.attached
         /\ sampleTicker.attached

\* "500 1" has been applied twice in a row, with a tick in between
C6_AppliedTwice ==
   /\ pc = "p_ack"
   /\ HasApplied
   /\ LastApplied.freq = Text500_000
   /\ LastApplied.amp = Text1_000
   /\ snap.frequency = freq
   /\ snap.amplitude = amp
   /\ amp = ONE_VOLT
   /\ snap.ticks > 0
   /\ currentTableSize = 50

\* the bands of the table-size policy: upper bound in hertz, table size
Bands == <<[upTo |-> 150, size |-> 200], [upTo |-> 300, size |-> 100],
           [upTo |-> 600, size |-> 50], [upTo |-> 1200, size |-> 30]>>
\* the first band whose upper bound is at least f applies, else the coarsest size
FirstBand(f) ==
   LET hits == {i \in 1..Len(Bands) : F32Leq(f, F32OfInt(Bands[i].upTo))}
   IN  IF hits = {} THEN 20
       ELSE Bands[CHOOSE i \in hits : \A j \in hits : i <= j].size

\* x < y
BigLess(x, y) ==
   IF Len(x) # Len(y) THEN Len(x) < Len(y)
   ELSE \E i \in 1..Len(x) : x[i] < y[i] /\ \A j \in (i + 1)..Len(x) : x[j] = y[j]
\* x * y
RECURSIVE BigMul(_, _)
BigMul(x, y) ==
   IF y = << >> THEN << >>
   ELSE BigAdd(BigMulAdd(x, y[1], 0), BigShl(BigMul(x, Tail(y)), 15))
\* the value of an unsigned int
BigOfUnsigned(us) ==
   IF us >= 0 THEN BigOfInt(us)
   ELSE BigAdd(BigOfInt((us + 2147483647) + 1), BigShl(BigOfInt(1), 31))

\* us is 1e6 / (f * tableSize) microseconds, cut or rounded to a whole number,
\* and 6 when that is below 6: with 1e6 / (f * tableSize) = N / D in whole
\* numbers, N < 6 * D and us = 6, or (us - 1) * D <= N < (us + 1) * D.
IntervalAsClaimed(f, tableSize, us) ==
   IF f.cls = "inf" THEN us = 6
   ELSE LET N  == BigShl(BigOfInt(1000000), IF f.exp < 0 THEN 0 - f.exp ELSE 0)
            D  == BigShl(BigMulAdd(BigOfInt(f.mant), tableSize, 0),
                         IF f.exp > 0 THEN f.exp ELSE 0)
            UD == BigMul(D, BigOfUnsigned(us))
        IN  IF BigLess(N, BigMulAdd(D, 6, 0)) THEN us = 6
            ELSE ~BigLess(BigAdd(N, D), UD) /\ BigLess(N, BigAdd(UD, D))

\* C7 as stated: when processSerialLine has returned from an accepted command,
\* currentTableSize is the band size for the frequency, currentIntervalUs is
\* 1e6 / (f * currentTableSize) floored at 6, the detail line reports that table
\* size and interval, and "500 3.3" gives 50 and 40, "2000 5" gives 20, 3.300
\* and 25.
C7_TableSizeAndInterval ==
   (pc = "l_reset" /\ out # << >> /\ out[Len(out)].tag = "APPLIED")
      => /\ currentTableSize = FirstBand(frequency)
         /\ IntervalAsClaimed(frequency, currentTableSize, currentIntervalUs)
         /\ out[Len(out)].tableSize = currentTableSize
         /\ out[Len(out)].interval_us = currentIntervalUs
         /\ line = Line500_33
               => /\ out[Len(out)].tableSize = 50
                  /\ out[Len(out)].interval_us = 40
                  /\ out[Len(out)].amp = Text3_300
         /\ line = Line2000_5
               => /\ out[Len(out)].tableSize = 20
                  /\ out[Len(out)].interval_us = 25
                  /\ out[Len(out)].amp = Text3_300

\* C8: the table size is a non-increasing step function of the frequency (for
\* f1 <= f2 the size for f1 is at least the size for f2), it is the size of the
\* first band whose upper bound is at least the frequency, 20 beyond all bands,
\* and setup's copy of the policy gives the same size as processSerialLine's.
C8_PolicyMonotoneStep ==
   pc = "policy_done"
      => /\ F32Leq(freq, argFreq) => newTableSize >= bSize
         /\ newTableSize = FirstBand(freq)
         /\ bSize = FirstBand(argFreq)
         /\ argSize = newTableSize

\* the policy has been applied to 150.0001 Hz and to 1200.001 Hz
C8_AcrossBands ==
   /\ pc = "policy_done"
   /\ freq = F32Literal(<<1, 5, 0, 0, 0, 0, 1>>, 0 - 4)
   /\ argFreq = F32Literal(<<1, 2, 0, 0, 0, 0, 1>>, 0 - 3)
   /\ newTableSize = 100
   /\ argSize = 100
   /\ bSize = 20

\* the run is one the board can make: no conversion has had an outcome that
\* only a build for another processor gives. The sketch builds for the Mbed
\* core of the Nano 33 BLE alone (lines 5 and 23), and there the conversion of
\* line 132 saturates.
OnBoard == "saturate" \in castOverflow

\* C9: an accepted command is acknowledged however large its frequency, and on
\* the board, after startup, whenever the ticker is attached, the interval it
\* is attached with and currentIntervalUs are at least 6 microseconds.
C9_IntervalAtLeastMinimum ==
   /\ (pc = "l_reset" /\ RecoversPair(ParseLine(line)))
         => (Len(out) >= 2 /\ out[Len(out) - 1].tag = "ACK")
   /\ (OnBoard /\ ~InSetup /\ sampleTicker.attached)
         => /\ ~UnsignedLess(currentIntervalUs, MIN_INTERVAL_US)
            /\ ~UnsignedLess(sampleTicker.us, MIN_INTERVAL_US)

\* on the board "1e-16 1" has been applied with the interval the conversion
\* saturates to, and then "900000 2", whose interval of 0.056 microseconds was
\* held at 6: both were acknowledged and the ticker runs at 6 microseconds
C9_FloorAfterSaturation ==
   /\ pc = "loop"
   /\ rx = << >>
   /\ castOverflow = {"saturate"}
   /\ Len(out) = 5
   /\ out[2].tag = "ACK"
   /\ out[3].interval_us = UINT_MAX
   /\ out[4].tag = "ACK"
   /\ out[5].tableSize = 20
   /\ out[5].interval_us = MIN_INTERVAL_US
   /\ sampleTicker.attached
   /\ sampleTicker.us = MIN_INTERVAL_US
   /\ currentIntervalUs = MIN_INTERVAL_US

\* C10: ARDUINO_READY is printed exactly once, as the first line of output,
\* when setup has built the table and attached the ticker, and before any byte
\* is read from the serial port.
C10_ReadyOnceAfterSetup ==
   /\ InSetup => (out = << >> /\ nread = 0)
   /\ pc = "s_ready" => (sampleTicker.attached /\ tickerAttached /\ TableBuilt)
   /\ ~InSetup
         => /\ Len(out) >= 1
            /\ out[1].tag = "ARDUINO_READY"
            /\ \A i \in 2..Len(out) : out[i].tag # "ARDUINO_READY"

\* two lines have been answered after the ready marker
C10_ReadyThenAnswers ==
   /\ Len(out) = 5
   /\ out[1].tag = "ARDUINO_READY"
   /\ out[2].tag = "NACK"
   /\ out[4].tag = "ACK"
   /\ nread > 0

\* C11: the oscillator is never left halted. After startup, whenever the main
\* context is in loop (waiting for input) the ticker is attached, whatever lines
\* were received; a ticker that a reconfiguration has detached is attached
\* again before the handler returns; and with the interrupt delivered fairly
\* ticks keep occurring after startup: once setup has returned, every tick the
\* budget of the model allows is delivered.
C11_NeverLeftHalted ==
   /\ [](pc = "loop" => (sampleTicker.attached /\ tickerAttached))
   /\ []((pc \in {"u_size", "k_attach"} /\ ~sampleTicker.attached)
            => <>(pc \in {"p_ack", "s_ready"} /\ sampleTicker.attached))
   /\ [](~InSetup => <>(tickCount = MaxTicks))

\* back in loop with the ticker attached after an accepted and a rejected line,
\* and ticks have been delivered since
C11_RunningAfterCommands ==
   /\ pc = "loop"
   /\ rx = << >>
   /\ HasApplied
   /\ out[Len(out)].tag = "PARSE_ERROR"
   /\ sampleTicker.attached
   /\ tickCount > snap.resumeTicks

\* the tokens of a line: its maximal runs of characters that are not white space
RECURSIVE Tokens(_, _)
Tokens(s, i) ==
   Only({IF a > Len(s) THEN << >>
         ELSE Only({<<SubSeq(s, a, b - 1)>> \o Tokens(s, b) :
                      b \in {FirstOf({j \in a..Len(s) : IsSpace(s[j])}, Len(s) + 1)}}) :
           a \in {SkipSpace(s, i)}})
\* the whole token is one number
IsNumeral(tok) == \E r \in {ScanFloat(tok, 1)} : r.ok /\ r.next = Len(tok) + 1
\* strategy (1): the line is exactly two numeric tokens, frequency then amplitude
TwoNumbers(s) ==
   \E tk \in {Tokens(s, 1)} : Len(tk) = 2 /\ IsNumeral(tk[1]) /\ IsNumeral(tk[2])
\* strategy (2): a number follows the word "frequency", and one the word "amplitude"
NumberAfter(s, word, stop) ==
   \E at \in {StrStr(s, word, 1)} : at > 0 /\ ScanAfterKeyword(s, at, stop).ok
ValueAfter(s, word, stop) == ScanAfterKeyword(s, StrStr(s, word, 1), stop).val
\* the pair the one strategy that matches recovers (ok: one of them matches)
StrategyPair(s) ==
   IF TwoNumbers(s)
   THEN [ok |-> TRUE, freq |-> ScanFloat(Tokens(s, 1)[1], 1).val,
                      amp  |-> ScanFloat(Tokens(s, 1)[2], 1).val]
   ELSE IF NumberAfter(s, KwFrequency, {"-"}) /\ NumberAfter(s, KwAmplitude, {"-", "."})
   THEN [ok |-> TRUE, freq |-> ValueAfter(s, KwFrequency, {"-"}),
                      amp  |-> ValueAfter(s, KwAmplitude, {"-", "."})]
   ELSE [ok |-> FALSE, freq |-> NotRecovered, amp |-> NotRecovered]

\* C12 as stated: a line is acknowledged and applied only if it is exactly two
\* numeric tokens, or else the free-text scan recovers a number after
\* "frequency" and a number after "amplitude"; the frequency is positive and the
\* amplitude not negative; and the pair applied is the pair of that strategy.
C12_OneStrategyOnly ==
   (pc = "l_reset" /\ out # << >> /\ out[Len(out)].tag = "APPLIED")
      => \E sp \in {StrategyPair(line)} :
            /\ sp.ok
            /\ RecoversPair(sp)
            /\ frequency = sp.freq
            /\ amplitude_v = (IF F32Less(VCC, sp.amp) THEN VCC ELSE sp.amp)

\* in every state bufpos is in 0..sizeof(buf)-1, buf holds bufpos bytes, none of
\* them a carriage return, and the line handed to the handler (ended by the NUL
\* written at buf[bufpos]) has at most sizeof(buf)-1 bytes
BufferInBounds ==
   /\ bufpos \in 0..(BUF_SIZE - 1)
   /\ Len(buf) = bufpos
   /\ \A i \in 1..Len(buf) : buf[i] # "\r"
   /\ Len(line) <= BUF_SIZE - 1
   /\ \A i \in 1..Len(line) : line[i] # "\r"
\* the buffer is full and a byte other than a newline is read
FullBufferByte ==
   /\ pc = "loop"
   /\ bufpos = BUF_SIZE - 1
   /\ rx # << >>
   /\ Head(rx) \notin {"\n", "\r"}
   /\ nread' # nread
\* the bytes of b up to its first NUL, as a reader of the C string sees them
UpToNul(b) ==
   IF \E i \in 1..Len(b) : b[i] = NUL
   THEN SubSeq(b, 1, (CHOOSE i \in 1..Len(b) :
                        b[i] = NUL /\ \A j \in 1..(i - 1) : b[j] # NUL) - 1)
   ELSE b

\* C13 as stated: the line buffer never overflows (bufpos in 0..sizeof(buf)-1,
\* the NUL written in bounds, no carriage return stored); when the buffer is
\* full and a byte other than a newline is read, the line the handler processes
\* is the accumulated bytes exactly; and when the handler has returned the
\* buffer is reset.
C13_ProcessedAsAccumulated ==
   /\ []BufferInBounds
   /\ [][ /\ FullBufferByte => (pc' = "p_parse" /\ line' = buf)
          /\ (pc = "l_reset" /\ pc' # pc)
              => (pc' = "loop" /\ bufpos' = 0 /\ buf' = << >>) ]_vars

\* C13, amended: the line buffer never overflows (bufpos in 0..sizeof(buf)-1,
\* the NUL written in bounds, no carriage return stored); when the buffer is
\* full and a byte other than a newline is read, the accumulated bytes are
\* handed to the handler as accumulated and the handler processes them up to
\* the first NUL byte among them (all of them when none is NUL); and when the
\* handler has returned the buffer is reset.
C13_BufferNeverOverflows ==
   /\ []BufferInBounds
   /\ [][ /\ FullBufferByte
              => (pc' = "p_parse" /\ line' = UpToNul(buf) /\ Len(buf) = BUF_SIZE - 1)
          /\ (pc = "l_reset" /\ pc' # pc)
              => (pc' = "loop" /\ bufpos' = 0 /\ buf' = << >>) ]_vars

\* a full buffer was handed over when one more byte arrived: "500 1" and its
\* padding has been applied, and the newline of the stream is still to be read
C13_FullBufferProcessed ==
   /\ pc = "l_reset"
   /\ Len(line) = BUF_SIZE - 1
   /\ bufpos = BUF_SIZE - 1
   /\ rx = <<"\n">>
   /\ out[Len(out)].tag = "APPLIED"
   /\ out[Len(out)].freq = Text500_000

\* a byte that ends a line is being read: a newline, or any byte but a carriage
\* return when the buffer is full
EndsLine ==
   /\ pc = "loop"
   /\ rx # << >>
   /\ Head(rx) # "\r"
   /\ Head(rx) = "\n" \/ bufpos >= BUF_SIZE - 1
   /\ nread' # nread
\* the handler answers the line it was given, once, as it returns: ACK and a
\* detail line if the line is accepted, NACK and PARSE_ERROR if not; and while
\* it is at work no byte is read
OneAnswer ==
   /\ (out' # out /\ pc # "s_ready")
         => /\ pc' = "l_reset"
            /\ \/ /\ Accepted(ParseLine(line))
                  /\ Len(out') = Len(out) + 2
                  /\ SubSeq(out', 1, Len(out)) = out
                  /\ out'[Len(out) + 1] = Msg("ACK")
                  /\ out'[Len(out) + 2].tag = "APPLIED"
               \/ /\ ~Accepted(ParseLine(line))
                  /\ out' = out \o <<Msg("NACK"), Msg("PARSE_ERROR")>>
   /\ (pc' = "l_reset" /\ pc # "l_reset") => out' # out
   /\ pc # "loop" => (nread' = nread /\ rx' = rx)

\* C15 as stated: every completed line yields exactly one response, ACK and a
\* detail line or NACK and PARSE_ERROR, never none, and the response is whole
\* before a byte of the next line is read.
C15_EveryLineAnswered ==
   [][ /\ EndsLine => (pc' = "p_parse" /\ out' = out)
       /\ OneAnswer ]_vars

\* C15, amended: every completed line that holds at least one byte (carriage
\* returns not counted) yields exactly one response, ACK and a detail line or
\* NACK and PARSE_ERROR, whole before a byte of the next line is read; a
\* completed line that holds no byte yields no response.
C15_NonEmptyLineAnswered ==
   [][ /\ (EndsLine /\ bufpos > 0) => (pc' = "p_parse" /\ out' = out)
       /\ (EndsLine /\ bufpos = 0) => (pc' = "loop" /\ out' = out)
       /\ OneAnswer ]_vars

\* the stream of an empty line, "500 1", "hello world" and an empty line has
\* been read: two responses, in that order
C15_TwoAnswersFourLines ==
   /\ pc = "loop"
   /\ rx = << >>
   /\ nread = Len(StreamLines)
   /\ Len(out) = 5
   /\ out[2].tag = "ACK"
   /\ out[3].tag = "APPLIED"
   /\ out[4].tag = "NACK"
   /\ out[5].tag = "PARSE_ERROR"

\* C19: for every accepted frequency f, f times the table size the policy
\* chooses for f is at most 30000 samples per second.
C19_RateAtMost30kHz ==
   (pc = "policy_done" /\ F32Less(F32Zero, freq))
      => F32Leq(F32Mul(freq, F32OfInt(newTableSize)), F32OfInt(30000))

\* C17: a call of onSampleTick that finds currentTableSize <= 0 is a no-op: it
\* writes nothing to the PWM, leaves phase as it is and changes no other
\* variable of the oscillator (it returns before the table is read and before
\* the division by the table size).
C17_DegenerateTickIsNoOp ==
   [][ (tickCount' # tickCount /\ currentTableSize <= 0)
          => (pwmDuty' = pwmDuty /\ phase' = phase /\ UNCHANGED shared) ]_vars

\* two ticks have run with a table size of zero, at phase 1/4 and full scale,
\* and the duty is still the full duty that no sample of the table would give
C17_TickedWhileDegenerate ==
   /\ tickCount = MaxTicks
   /\ currentTableSize = 0
   /\ phase = ONE30 \div 4
   /\ amplitude_scale = DEFAULT_AMPLITUDE_SCALE
   /\ pwmDuty = ONE15

\* C16: in every reachable state, after startup, accepted and rejected
\* commands and ticks, phase is in [0, 1) and currentTableSize is in
\* 1..MAX_TABLE_SIZE.
C16_PhaseAndSizeInRange ==
   /\ phase >= 0
   /\ phase < ONE30
   /\ currentTableSize >= 1
   /\ currentTableSize <= MAX_TABLE_SIZE

\* every command of a stream has been answered, the last one set a table of 20
\* entries, and since then the ticks have taken phase once around: it has
\* wrapped and is below where it was when the command started the ticker
C16_WrappedAfterCommands ==
   /\ pc = "loop"
   /\ rx = << >>
   /\ HasApplied
   /\ currentTableSize = 20
   /\ tickCount - snap.resumeTicks \in 1..20
   /\ phase < snap.resumePhase

\* C20: whenever a tick can run, the two table indices it would use are in
\* 0..currentTableSize - 1, the second is the first plus one modulo the table
\* size, and both entries are the ones built for the current size.
C20_IndicesInBounds ==
   sampleTicker.attached =>
      \E ix \in {TickIndex(phase, currentTableSize)} :
         /\ ix.idx0 >= 0
         /\ ix.idx0 < currentTableSize
         /\ ix.idx1 >= 0
         /\ ix.idx1 < currentTableSize
         /\ ix.idx1 = (ix.idx0 + 1) % currentTableSize
         /\ sineTable[ix.idx0] = SineEntry(ix.idx0, currentTableSize)
         /\ sineTable[ix.idx1] = SineEntry(ix.idx1, currentTableSize)

\* a table of 20 entries after one of 30, whose entry 25 is still in the
\* array; ticks have run and the next one uses the last entry and entry 0
C20_LastEntryThenFirst ==
   /\ sampleTicker.attached
   /\ pc = "loop"
   /\ currentTableSize = 20
   /\ sineTable[25] = SineEntry(25, 30)
   /\ tickCount > snap.resumeTicks
   /\ TickIndex(phase, currentTableSize).idx0 = 19
   /\ TickIndex(phase, currentTableSize).idx1 = 0

\* C18: with no reconfiguration in between, currentTableSize consecutive ticks
\* bring phase back to the value it had: one output cycle is currentTableSize
\* ticks. Taken from the phase at which the ticker was last started, after which
\* the table size stays as it is for as long as the ticker is attached.
C18_CycleIsTableSizeTicks ==
   (sampleTicker.attached /\ tickCount - snap.resumeTicks = currentTableSize)
      => phase = snap.resumePhase

\* one table step of a table of n entries: the largest difference between two
\* neighbouring entries, in units of 2^-15
TableStep(n) ==
   LET D == {SineEntry((i + 1) % n, n) - SineEntry(i, n) : i \in 0..(n - 1)}
   IN  CHOOSE d \in D : \A e \in D : e <= d

\* the handler is applying an accepted command: processSerialLine was called
\* from loop and has passed line 216
InApply ==
   /\ stack # << >>
   /\ stack[Len(stack)] = "l_reset"
   /\ pc # "p_parse"

\* an accepted command has started the ticker again and no tick has run since
JustReconfigured ==
   /\ ~InSetup
   /\ HasApplied \/ InApply
   /\ sampleTicker.attached
   /\ tickCount = snap.resumeTicks

\* the sample the first tick after the command puts out
SampleResumed == TickSample(sineTable, phase, currentTableSize)
\* the sample the configuration the command found would have put out at the
\* same phase
SampleContinued == TickSample(TableFor(snap.tableSize), phase, snap.tableSize)

\* C14: after a reconfiguration from table size N1 to N2 the first sample
\* differs from the sample the N1 configuration would have given at the same
\* phase by at most one table step (of the finer of the two tables).
C14_BoundedDiscontinuity ==
   JustReconfigured =>
      \E d \in {SampleResumed - SampleContinued} :
         /\ d <= Min(TableStep(snap.tableSize), TableStep(currentTableSize))
         /\ 0 - d <= Min(TableStep(snap.tableSize), TableStep(currentTableSize))

\* a table of 30 entries has replaced one of 20 in the second half of the
\* cycle, and the two samples differ
C14_ResizedMidCycle ==
   /\ JustReconfigured
   /\ pc = "loop"
   /\ snap.tableSize = 20
   /\ currentTableSize = 30
   /\ phase > ONE30 \div 2
   /\ SampleResumed # SampleContinued

\* the table size or the interval of the command being applied is in effect:
\* attachTickerUs has armed the ticker again, or a value differs from the one
\* the command found
NewTiming ==
   \/ pc \in {"k_flag", "p_ack"}
   \/ currentTableSize # snap.tableSize
   \/ sampleTicker.us # snap.interval_us

\* C21: within an accepted command no tick runs with the new table size or
\* interval and the old amplitude_scale (a tick that finds the new timing finds
\* the scale of the command, amp / VCC), and in every state, between the
\* writes of applyAmplitude included, amplitude_scale is in [0, 1].
C21_AmplitudeBeforeTiming ==
   /\ [](F32Leq(F32Zero, amplitude_scale) /\ F32Leq(amplitude_scale, F32OfInt(1)))
   /\ [][ (tickCount' # tickCount /\ InApply /\ NewTiming)
             => (amplitude_scale = F32Div(amp, VCC) /\ amplitude_v = amp) ]_vars

\* "500 1" is being applied to the oscillator as setup left it: the scale is
\* the new one (1 / 3.3), the table size is still the old one (200, against
\* 50 to come), the ticker is still attached, and the second tick has run,
\* from the phase the first one left, and written the duty of the new scale
C21_NewScaleOldTable ==
   /\ InApply
   /\ pc = "u_detach"
   /\ sampleTicker.attached
   /\ amplitude_scale = ONE_VOLT_SCALE
   /\ snap.scale = DEFAULT_AMPLITUDE_SCALE
   /\ currentTableSize = snap.tableSize
   /\ newTableSize # currentTableSize
   /\ tickCount = 2
   /\ phase = TickAdvance(StepFor(currentTableSize), currentTableSize)
   /\ pwmDuty = TickDuty(ONE_VOLT_SCALE,
                         TickSample(sineTable, StepFor(currentTableSize), currentTableSize))
   /\ pwmDuty # TickDuty(snap.scale,
                         TickSample(sineTable, StepFor(currentTableSize), currentTableSize))

\* the stream the host wrote, told from what has been read and what is left
StreamOf ==
   CHOOSE s \in Streams : /\ Len(s) = nread + Len(rx)
                          /\ SubSeq(s, nread + 1, Len(s)) = rx

NotCR(c) == c # "\r"

\* the last newline of s before byte i (0 if there is none)
LastNewline(s, i) ==
   CHOOSE j \in 0..(i - 1) :
      /\ j = 0 \/ s[j] = "\n"
      /\ \A k \in (j + 1)..(i - 1) : s[k] # "\n"

\* The bytes of s that are pending when byte i arrives, by the rule of the
\* claim: of the bytes since the last newline, carriage returns left out,
\* every one whose place is a multiple of sizeof(buf) has ended a line and
\* was discarded, and the bytes after the last such one are pending.
PendingAt(s, i) ==
   LET since == SelectSeq(SubSeq(s, LastNewline(s, i) + 1, i - 1), NotCR)
   IN  SubSeq(since, Len(since) - (Len(since) % BUF_SIZE) + 1, Len(since))

\* byte i of s ends a line: a newline, or a byte other than a carriage return
\* that finds sizeof(buf) - 1 bytes pending
EndsAt(s, i) ==
   /\ s[i] # "\r"
   /\ s[i] = "\n" \/ Len(PendingAt(s, i)) = BUF_SIZE - 1

\* the lines of the first n bytes of s that go to the handler
LinesUpTo(s, n) == {i \in 1..n : EndsAt(s, i) /\ PendingAt(s, i) # << >>}

\* while loop is reading, the buffer holds the pending bytes by the rule above,
\* and every line handed over has had one response
PendingBuffered ==
   (pc = "loop" /\ ~InSetup)
      => /\ buf = PendingAt(StreamOf, nread + 1)
         /\ Len(out) = 1 + 2 * Cardinality(LinesUpTo(StreamOf, nread))

\* C22 as stated: the byte that finds the buffer full is in no line and the
\* next line starts with the byte after it; every other byte but CR and LF is
\* in one processed line, in arrival order: the line the handler processes is
\* the pending bytes; and a newline with an empty buffer gives no call and no
\* response.
C22_EveryByteProcessed ==
   /\ []PendingBuffered
   /\ [][ EndsLine
             => \E e \in {PendingAt(StreamOf, nread + 1)} :
                   IF e # << >>
                   THEN pc' = "p_parse" /\ line' = e /\ stack' = <<"l_reset">>
                   ELSE /\ pc' = "loop" /\ stack' = stack /\ out' = out
                        /\ buf' = << >> /\ bufpos' = 0 ]_vars

\* C22, amended: the byte that finds the buffer full is in no line and the next
\* line starts with the byte after it; every other byte but CR and LF is in one
\* buffer handed to the handler, in arrival order, and the handler processes
\* that buffer up to its first NUL byte (all of it when it holds none); and a
\* newline with an empty buffer gives no call and no response.
C22_TriggerByteDiscarded ==
   /\ []PendingBuffered
   /\ [][ EndsLine
             => \E e \in {PendingAt(StreamOf, nread + 1)} :
                   IF e # << >>
                   THEN /\ pc' = "p_parse" /\ stack' = <<"l_reset">>
                        /\ buf = e
                        /\ line' = UpToNul(e)
                   ELSE /\ pc' = "loop" /\ stack' = stack /\ out' = out
                        /\ buf' = << >> /\ bufpos' = 0 ]_vars

\* the 199 letters x of the stream (its CR left out) went to the handler when
\* y arrived, y was dropped, and the next line, "z", has now been handed over
C22_LineAfterTrigger ==
   /\ pc = "p_parse"
   /\ nread = Len(StreamOverflowNack)
   /\ line = <<"z">>
   /\ Len(out) = 3
   /\ out[3].tag = "PARSE_ERROR"

=============================================================================
